---- MODULE Spec2Model ----
(***************************************************************************)
(* Job-Hunter pipeline: the runner (runPipeline), the provider-level       *)
(* deduplicator (filterNewJobs), the AI scorer (scoreJobs,                 *)
(* dedupAndSummarise), the digest (sendDailyReport), the manual trigger    *)
(* route and the cron trigger, over the SQLite tables search_runs, jobs    *)
(* and run_job_logs.                                                       *)
(*                                                                         *)
(* Text is a tuple of one-character strings, so that toLowerCase, trim     *)
(* and the \W+ split are computed and not assumed.                         *)
(***************************************************************************)
EXTENDS Integers, Sequences, FiniteSets, TLC

\* ------------------------------------------------------------------ bounds
\* accepted pipeline runs per behaviour
MaxRuns == 2
\* longest title and longest filter text of the title-filter harness
MaxTitleLen == 3
MaxFilterLen == 3
\* longest stretch of plain text between the phrases of a description
MaxFillLen == 2
\* groups the clients of the group API create
MaxGroupRows == 3
\* raw model scores are drawn from -ScoreMargin .. 100 + ScoreMargin
ScoreMargin == 2

\* ------------------------------------------------------------------ text
NullId == 0
NullScore == 0 - 1
NullText == <<"\\0">>
NullCat == "null"

Lower(c) ==
  CASE c = "A" -> "a"
    [] c = "B" -> "b"
    [] c = "C" -> "c"
    [] OTHER -> c

toLowerCase(s) == [i \in 1..Len(s) |-> Lower(s[i])]

IsSpace(c) == c \in {" ", "\n"}

RECURSIVE trimStart(_)
trimStart(s) ==
  IF s = <<>> THEN <<>>
  ELSE IF IsSpace(Head(s)) THEN trimStart(Tail(s)) ELSE s

RECURSIVE trimEnd(_)
trimEnd(s) ==
  IF s = <<>> THEN <<>>
  ELSE IF IsSpace(s[Len(s)]) THEN trimEnd(SubSeq(s, 1, Len(s) - 1)) ELSE s

trim(s) == trimEnd(trimStart(s))

IsWordChar(c) == c \in {"a", "b", "c", "A", "B", "C"}

\* s.split(/\W+/).filter(Boolean), as the set of its words
RECURSIVE splitWords(_, _)
splitWords(s, cur) ==
  IF s = <<>> THEN (IF cur = <<>> THEN {} ELSE {cur})
  ELSE IF IsWordChar(Head(s)) THEN splitWords(Tail(s), Append(cur, Head(s)))
  ELSE (IF cur = <<>> THEN {} ELSE {cur}) \cup splitWords(Tail(s), <<>>)

\* s.split('\n'), as the set of its lines
RECURSIVE splitLines(_, _)
splitLines(s, cur) ==
  IF s = <<>> THEN {cur}
  ELSE IF Head(s) = "\n" THEN {cur} \cup splitLines(Tail(s), <<>>)
  ELSE splitLines(Tail(s), Append(cur, Head(s)))

\* a filter that asks for one word of a line, not for all of them
matchesTitleFilter_anyWord(title, filter) ==
  LET titleWords == splitWords(toLowerCase(title), <<>>)
      lines == {toLowerCase(trim(l)) : l \in splitLines(filter, <<>>)} \ {<<>>}
  IN \E line \in lines : splitWords(line, <<>>) \cap titleWords # {}

matchesTitleFilter(title, filter) ==
  LET titleWords == splitWords(toLowerCase(title), <<>>)
      lines == {toLowerCase(trim(l)) : l \in splitLines(filter, <<>>)} \ {<<>>}
  IN \E line \in lines : splitWords(line, <<>>) \subseteq titleWords

RECURSIVE SelectSeq2(_, _, _)
\* Array.filter with a predicate of two arguments
SelectSeq2(s, P(_, _), arg) ==
  IF s = <<>> THEN <<>>
  ELSE IF P(Head(s), arg) THEN <<Head(s)>> \o SelectSeq2(Tail(s), P, arg)
  ELSE SelectSeq2(Tail(s), P, arg)

Range(s) == {s[i] : i \in 1..Len(s)}

\* ------------------------------------------------------------------ verdict
Min(a, b) == IF a < b THEN a ELSE b
Max(a, b) == IF a > b THEN a ELSE b

\* Math.round of a score given in halves (score2 = 2 * output.score)
MathRound(score2) == (score2 + 1) \div 2

\* Math.max(0, Math.min(100, Math.round(output.score)))
clampScore(score2) == Max(0, Min(100, MathRound(score2)))

computeVerdict(score, settings) ==
  IF score >= settings.score_strong_match_min THEN "STRONG_MATCH"
  ELSE IF score >= settings.score_no_match_max + 1 THEN "WEAK_MATCH"
  ELSE "NO_MATCH"

\* ------------------------------------------------------------------ inputs
\* search_groups rows (the columns the runner reads)
GroupA ==
  [id |-> 1, is_active |-> TRUE, title_filter |-> <<>>,
   score_no_match_max |-> 50, score_weak_match_max |-> 70,
   score_strong_match_min |-> 71]

\* title filter "a c\n B": the words a and c, or the word b
GroupB ==
  [id |-> 2, is_active |-> TRUE,
   title_filter |-> <<"a", " ", "c", "\n", " ", "B">>,
   score_no_match_max |-> 50, score_weak_match_max |-> 70,
   score_strong_match_min |-> 71]

GroupOff == [GroupA EXCEPT !.is_active = FALSE]

\* the same two groups with the title filter on the first one
GroupF == [GroupB EXCEPT !.id = 1]
GroupN == [GroupA EXCEPT !.id = 2]

\* postings the provider returns (JobPosting: jobId, company, title)
PostA == [jobId |-> 1, company |-> <<"A", "c">>, title |-> <<"A", " ", "b">>]
\* another identifier for the same company and title, in another case
PostB == [jobId |-> 2, company |-> <<"a", "C">>, title |-> <<"a", " ", "B">>]
\* company " B", title "c"
PostC == [jobId |-> 3, company |-> <<" ", "B">>, title |-> <<"c">>]
\* the identifier of PostA under another company and title
PostD == [jobId |-> 1, company |-> <<"B">>, title |-> <<"b">>]

\* a third identifier for the company and title of PostA
PostE == [jobId |-> 4, company |-> <<"A", "c">>, title |-> <<"A", " ", "b">>]

NoFeed == [g \in {1, 2} |-> <<>>]
Feed1 == [g \in {1, 2} |-> IF g = 1 THEN <<PostA, PostA, PostB>> ELSE <<PostA, PostC>>]
Feed2 == [g \in {1, 2} |-> IF g = 1 THEN <<PostC, PostA>> ELSE <<PostD, PostB>>]
Feed3 == [g \in {1, 2} |-> IF g = 1 THEN <<PostA>> ELSE <<PostB>>]
\* one identifier three times in a batch; a repeated posting the second
\* group's title filter removes
Feed4 == [g \in {1, 2} |-> IF g = 1 THEN <<PostA, PostD, PostA>>
                                    ELSE <<PostC, PostC, PostB>>]
\* three identifiers for one company and title
Feed5 == [g \in {1, 2} |-> IF g = 1 THEN <<PostA>> ELSE <<PostB, PostE>>]
\* one posting in both groups
Feed6 == [g \in {1, 2} |-> IF g = 1 THEN <<PostC, PostA>> ELSE <<PostC, PostB>>]

\* three postings for one group, two of them of one company and title
Feed7 == [g \in {1, 2} |-> IF g = 1 THEN <<PostA, PostB, PostC>> ELSE <<>>]

\* the database operation of a synchronous stretch that throws, if any
FailPoints ==
  {"none", "getDb", "insertRun", "filteredLog", "dupLog", "filterNewJobs",
   "provDupLog", "existingQuery", "groupLog", "storeBlacklisted",
   "storeScored", "finalUpdate"}

\* what callScoringLlm can resolve to (score2 is twice the score)
LlmStrong ==
  [score2 |-> 170, verdict |-> "NO_MATCH", rejection_category |-> "NONE",
   summary |-> <<"s", " ">>]
LlmRounded ==
  [score2 |-> 141, verdict |-> "WEAK_MATCH", rejection_category |-> "OTHER",
   summary |-> <<" ">>]
LlmWeak ==
  [score2 |-> 140, verdict |-> "STRONG_MATCH", rejection_category |-> "OTHER",
   summary |-> <<"s">>]
LlmNo ==
  [score2 |-> 80, verdict |-> "NO_MATCH", rejection_category |-> "PROFILE_MISMATCH",
   summary |-> NullText]
\* scores beyond 0..100 by ScoreMargin
LlmOver ==
  [score2 |-> 200 + 2 * ScoreMargin, verdict |-> "STRONG_MATCH",
   rejection_category |-> "OTHER", summary |-> <<"s">>]
LlmUnder ==
  [score2 |-> 0 - 2 * ScoreMargin, verdict |-> "NO_MATCH",
   rejection_category |-> "NONE", summary |-> <<"s">>]
\* callScoringLlm throws
LlmError ==
  [score2 |-> 0, verdict |-> "error", rejection_category |-> "NONE",
   summary |-> NullText]

LlmOutputs == {LlmStrong, LlmRounded, LlmWeak, LlmNo}

EmailOutcomes == {"sent", "sendFailed", "queryThrew", "markThrew"}

\* an environment in which nothing fails
Calm ==
  [cron |-> FALSE, fetch |-> {TRUE}, throws |-> {}, recordOk |-> {TRUE},
   llm |-> {LlmStrong}, call2 |-> {TRUE}, email |-> {"sent"}]

\* the tables, the feed and the environment a behaviour starts from
Configs ==
  { \* both triggers, a database that fails at the start and at the end
    [settings |-> TRUE, email_enabled |-> FALSE, groups |-> <<GroupA>>,
     blacklist |-> {}, feed |-> Feed3,
     env |-> [Calm EXCEPT !.cron = TRUE, !.throws = {"getDb", "finalUpdate"},
                          !.recordOk = BOOLEAN]],
    \* a database that can fail anywhere
    [settings |-> TRUE, email_enabled |-> TRUE, groups |-> <<GroupF, GroupN>>,
     blacklist |-> {<<"b", " ">>}, feed |-> Feed2,
     env |-> [Calm EXCEPT !.throws = FailPoints \ {"none"}, !.recordOk = BOOLEAN]],
    \* a provider that can fail
    [settings |-> TRUE, email_enabled |-> TRUE, groups |-> <<GroupA, GroupB>>,
     blacklist |-> {}, feed |-> Feed3,
     env |-> [Calm EXCEPT !.fetch = BOOLEAN, !.llm = {LlmStrong, LlmNo}]],
    \* a model that answers anything or fails, and a blacklist
    [settings |-> TRUE, email_enabled |-> FALSE, groups |-> <<GroupA, GroupB>>,
     blacklist |-> {<<"b", " ">>}, feed |-> Feed1,
     env |-> [Calm EXCEPT !.llm = LlmOutputs \cup {LlmError}, !.call2 = BOOLEAN]],
    [settings |-> TRUE, email_enabled |-> FALSE, groups |-> <<GroupA, GroupB>>,
     blacklist |-> {<<"b", " ">>}, feed |-> Feed2,
     env |-> [Calm EXCEPT !.llm = {LlmStrong, LlmWeak, LlmError}, !.call2 = BOOLEAN]],
    \* a digest that can fail
    [settings |-> TRUE, email_enabled |-> TRUE, groups |-> <<GroupOff, GroupB>>,
     blacklist |-> {}, feed |-> Feed2,
     env |-> [Calm EXCEPT !.email = EmailOutcomes, !.llm = {LlmStrong, LlmWeak}]],
    \* a provider, a model, a database and a digest that can fail, on a small feed
    [settings |-> TRUE, email_enabled |-> TRUE, groups |-> <<GroupA, GroupB>>,
     blacklist |-> {}, feed |-> Feed3,
     env |-> [cron |-> FALSE, fetch |-> BOOLEAN, throws |-> {"storeScored"},
              recordOk |-> {TRUE}, llm |-> {LlmStrong, LlmError},
              call2 |-> {TRUE}, email |-> {"sent", "sendFailed"}]],
    \* repeats of an identifier within a batch
    [settings |-> TRUE, email_enabled |-> FALSE, groups |-> <<GroupA, GroupB>>,
     blacklist |-> {}, feed |-> Feed4,
     env |-> [Calm EXCEPT !.llm = {LlmStrong, LlmNo}]],
    \* one company and title under three identifiers, a provider that can fail
    [settings |-> TRUE, email_enabled |-> FALSE, groups |-> <<GroupA, GroupB>>,
     blacklist |-> {}, feed |-> Feed5,
     env |-> [Calm EXCEPT !.fetch = BOOLEAN]],
    \* a posting both groups return, with a title filter on the first group
    [settings |-> TRUE, email_enabled |-> FALSE, groups |-> <<GroupF, GroupN>>,
     blacklist |-> {}, feed |-> Feed6,
     env |-> [Calm EXCEPT !.llm = {LlmStrong, LlmNo}]],
    \* a model whose scores leave 0..100 and whose categories and summaries
    \* do not fit its scores
    [settings |-> TRUE, email_enabled |-> FALSE, groups |-> <<GroupA>>,
     blacklist |-> {}, feed |-> Feed7,
     env |-> [Calm EXCEPT !.llm = {LlmStrong, LlmOver, LlmUnder, LlmNo}]],
    \* no active group, no group, no settings row
    [settings |-> TRUE, email_enabled |-> FALSE, groups |-> <<GroupOff>>,
     blacklist |-> {}, feed |-> Feed1, env |-> [Calm EXCEPT !.cron = TRUE]],
    [settings |-> TRUE, email_enabled |-> TRUE, groups |-> <<>>,
     blacklist |-> {}, feed |-> NoFeed, env |-> [Calm EXCEPT !.recordOk = BOOLEAN]],
    [settings |-> FALSE, email_enabled |-> TRUE, groups |-> <<GroupA>>,
     blacklist |-> {}, feed |-> Feed1, env |-> Calm] }

\* ------------------------------------------------------------------ state
VARIABLES
  isRunning,       \* runner.ts: let isRunning
  lastRunResult,   \* runner.ts: let lastRunResult
  settings,        \* settings row: present, email_enabled
  search_groups,   \* table search_groups, ORDER BY id
  blacklisted_companies, \* table blacklisted_companies (company_name)
  feed,            \* what the provider returns for each group
  env,             \* what the environment can do in this behaviour
  search_runs,     \* table search_runs, row id = index
  jobs,            \* table jobs, row id = index
  run_job_logs,    \* table run_job_logs
  pc,              \* where the accepted run is suspended
  loc,             \* the locals of the accepted run
  ret,             \* what the trigger handled in the latest step got back
  vin,             \* scorer harness: a model output and a group's thresholds
  vout,            \* scorer harness: the ScoredJob made from vin
  accepted,        \* history: triggers accepted so far
  hist             \* history of the runs: what happened in them

vars == <<isRunning, lastRunResult, settings, search_groups,
          blacklisted_companies, feed, env, search_runs, jobs, run_job_logs,
          pc, loc, ret, vin, vout, accepted, hist>>

config == <<settings, search_groups, blacklisted_companies, feed, env, vin, vout>>

\* the scorer harness is not in use
NoInput == [score2 |-> 0, verdict |-> "none", noMatchMax |-> 0, weakMatchMax |-> 0]
NoOutput == [verdict |-> "none", score |-> NullScore]

\* no trigger was handled in the latest step
NoReturn == [trigger |-> "none", outcome |-> "none", status |-> "none", errorLog |-> <<>>]

\* the locals of runPipeline when no run is in flight
NoLocals ==
  [trigger |-> "none", runId |-> NullId, errors |-> <<>>,
   jobsFetched |-> 0, jobsScored |-> 0, jobsStrongMatch |-> 0,
   jobsWeakMatch |-> 0, jobsNoMatch |-> 0, jobsDuplicate |-> 0,
   groups |-> <<>>, blacklistNames |-> {}, email_enabled |-> FALSE, gi |-> 0,
   seenInRunJobIds |-> {}, seenStrongInRun |-> {},
   blacklistedJobs |-> <<>>, newJobs |-> <<>>, si |-> 0, attempt |-> 0,
   scoredJobs |-> <<>>, ci |-> 0, jobResults |-> <<>>, existingJobs |-> {},
   allFetched |-> <<>>, providerDupes |-> <<>>, digest |-> {}]

\* history of the run in flight
NoCur ==
  [rowsAtStart |-> 0, fetchFailed |-> {}, processed |-> {}, dropped |-> FALSE,
   scoredIds |-> {}, sendFailed |-> FALSE,
   seenBefore |-> {},   \* seenInRunJobIds when the group's batch arrived
   logsBefore |-> 0,    \* rows of run_job_logs when the group's batch arrived
   call1 |-> <<>>,      \* the callScoringLlm calls that settled, in order
   call2 |-> <<>>,      \* the dedupAndSummarise calls issued, in order
   results |-> <<>>,    \* the scored postings of the run, as step 4b left them
   skipped |-> {},      \* <<group, posting>> of the postings scoreJobs skipped
   email |-> "none",    \* how sendDailyReport ended
   jobsAtStart |-> 0]   \* rows of jobs when the run started

\* history of the latest run that returned
NoLast ==
  [ending |-> "none", runId |-> NullId, recorded |-> FALSE, recId |-> NullId,
   rowsAtStart |-> 0, rowsAtReturn |-> 0, errors |-> <<>>, fetchFailed |-> {},
   processed |-> {}, active |-> {}, scoredIds |-> {}, sendFailed |-> FALSE,
   status |-> "none", cause |-> "none", call1 |-> <<>>, call2 |-> <<>>,
   results |-> <<>>, skipped |-> {}, email |-> "none", jobsAtStart |-> 0]

NoHist ==
  [cur |-> NoCur, last |-> NoLast, inflight |-> 0, lost |-> 0, ignored |-> FALSE,
   someSuccess |-> FALSE, cleanAt |-> NullId]

Init ==
  /\ isRunning = FALSE
  /\ lastRunResult = [status |-> "none"]
  /\ \E c \in Configs :
       /\ settings = [present |-> c.settings, email_enabled |-> c.email_enabled]
       /\ search_groups = c.groups
       /\ blacklisted_companies = c.blacklist
       /\ feed = c.feed
       /\ env = c.env
  /\ search_runs = <<>>
  /\ jobs = <<>>
  /\ run_job_logs = <<>>
  /\ pc = "idle"
  /\ loc = NoLocals
  /\ ret = NoReturn
  /\ vin = NoInput
  /\ vout = NoOutput
  /\ accepted = 0
  /\ hist = NoHist

\* ------------------------------------------------------------------ tables
\* the state a synchronous stretch of the runner works on
Machine ==
  [loc |-> loc, pc |-> pc, search_runs |-> search_runs, jobs |-> jobs,
   run_job_logs |-> run_job_logs, isRunning |-> isRunning,
   lastRunResult |-> lastRunResult, hist |-> hist]

Becomes(m) ==
  /\ loc' = m.loc
  /\ pc' = m.pc
  /\ search_runs' = m.search_runs
  /\ jobs' = m.jobs
  /\ run_job_logs' = m.run_job_logs
  /\ isRunning' = m.isRunning
  /\ lastRunResult' = m.lastRunResult
  /\ hist' = m.hist

\* a lookup that leaves the BLACKLISTED rows out
storedIds_scoredOnly(tbl) ==
  {tbl[i].linkedin_job_id : i \in {k \in 1..Len(tbl) : tbl[k].ai_verdict # "BLACKLISTED"}}

storedIds(tbl) == {tbl[i].linkedin_job_id : i \in 1..Len(tbl)}

\* INSERT OR REPLACE: the later writer wins
insertJob_replaces(tbl, row) ==
  IF row.linkedin_job_id \in {tbl[i].linkedin_job_id : i \in 1..Len(tbl)}
    THEN [i \in 1..Len(tbl) |->
            IF tbl[i].linkedin_job_id = row.linkedin_job_id THEN row ELSE tbl[i]]
  ELSE Append(tbl, row)

\* INSERT OR IGNORE INTO jobs, under UNIQUE(linkedin_job_id)
insertJob(tbl, row) ==
  IF row.linkedin_job_id \in storedIds(tbl) THEN tbl ELSE Append(tbl, row)

RECURSIVE insertJobs(_, _)
insertJobs(tbl, rows) ==
  IF rows = <<>> THEN tbl
  ELSE insertJobs(insertJob(tbl, Head(rows)), Tail(rows))

\* the row insertJob.run stores for a blacklisted posting
blacklistedRow(job, group) ==
  [linkedin_job_id |-> job.jobId, title |-> job.title, company |-> job.company,
   ai_score |-> 0, ai_summary |-> NullText, ai_verdict |-> "BLACKLISTED",
   is_duplicate |-> FALSE, duplicate_of_job_id |-> NullId, seen |-> FALSE,
   group_id |-> group.id, rejection_category |-> NullCat]

\* a row that keeps the summary of Call 1 whatever step 4b decided
scoredRow_call1Summary(r, group) ==
  [linkedin_job_id |-> r.scored.job.jobId, title |-> r.scored.job.title,
   company |-> r.scored.job.company, ai_score |-> r.scored.score,
   ai_summary |-> r.scored.summary,
   ai_verdict |-> r.scored.verdict, is_duplicate |-> r.isDuplicate,
   duplicate_of_job_id |-> r.duplicateOfId, seen |-> r.isDuplicate,
   group_id |-> group.id, rejection_category |-> r.scored.rejectionCategory]

\* the row insertJob.run stores for a scored posting
scoredRow(r, group) ==
  [linkedin_job_id |-> r.scored.job.jobId, title |-> r.scored.job.title,
   company |-> r.scored.job.company, ai_score |-> r.scored.score,
   ai_summary |-> IF r.summary = <<>> THEN NullText ELSE r.summary,
   ai_verdict |-> r.scored.verdict, is_duplicate |-> r.isDuplicate,
   duplicate_of_job_id |-> r.duplicateOfId, seen |-> r.isDuplicate,
   group_id |-> group.id, rejection_category |-> r.scored.rejectionCategory]

\* one insertJobLog.run
logRow(runId, group, job, score, verdict, category) ==
  [run_id |-> runId, group_id |-> group.id, linkedin_job_id |-> job.jobId,
   title |-> job.title, company |-> job.company, ai_score |-> score,
   ai_verdict |-> verdict, rejection_category |-> category]

\* a transaction that writes no row
logAll_nothing(tbl, runId, group, list, verdict) == tbl

\* db.transaction over a list of postings that all get the same label
logAll(tbl, runId, group, list, verdict) ==
  tbl \o [i \in 1..Len(list) |->
            logRow(runId, group, list[i], NullScore, verdict, NullCat)]

\* ------------------------------------------------------------------ run end
zeroResult(status, errorLog, trigger) ==
  [status |-> status, errorLog |-> errorLog, trigger |-> trigger,
   jobsFetched |-> 0, jobsScored |-> 0, jobsStrongMatch |-> 0,
   jobsWeakMatch |-> 0, jobsNoMatch |-> 0, jobsDuplicate |-> 0]

activeIds(groups) == {groups[i].id : i \in {j \in 1..Len(groups) : groups[j].is_active}}

\* what the history keeps of a run when it returns
lastOf(m, ending, recorded, recId, runs, status, cause) ==
  [ending |-> ending, runId |-> m.loc.runId, recorded |-> recorded,
   recId |-> recId, rowsAtStart |-> m.hist.cur.rowsAtStart,
   rowsAtReturn |-> Len(runs), errors |-> m.loc.errors,
   fetchFailed |-> m.hist.cur.fetchFailed, processed |-> m.hist.cur.processed,
   active |-> activeIds(m.loc.groups), scoredIds |-> m.hist.cur.scoredIds,
   sendFailed |-> m.hist.cur.sendFailed, status |-> status, cause |-> cause,
   call1 |-> m.hist.cur.call1, call2 |-> m.hist.cur.call2,
   results |-> m.hist.cur.results, skipped |-> m.hist.cur.skipped,
   email |-> m.hist.cur.email, jobsAtStart |-> m.hist.cur.jobsAtStart]

\* a finally block that leaves the flag as it is
Finally_skipped(m) == m

\* the finally of runPipeline
Finally(m) == [m EXCEPT !.isRunning = FALSE]

\* the inner try of the catch block with a write that always inserts
recordFailure_inserts(runs, runId, trigger, errorMsg) ==
  Append(runs, [status |-> "failed", trigger |-> trigger,
                error_log |-> <<errorMsg>>, jobs_fetched |-> 0,
                jobs_scored |-> 0, jobs_strong_match |-> 0,
                jobs_weak_match |-> 0, jobs_no_match |-> 0,
                jobs_duplicate |-> 0])

\* the inner try of the catch block: UPDATE the run's row when the
\* identifier exists, INSERT a failed row otherwise
recordFailure(runs, runId, trigger, errorMsg) ==
  IF runId # NullId
    THEN [runs EXCEPT ![runId].status = "failed",
                      ![runId].error_log = <<errorMsg>>]
  ELSE Append(runs, [status |-> "failed", trigger |-> trigger,
                     error_log |-> <<errorMsg>>, jobs_fetched |-> 0,
                     jobs_scored |-> 0, jobs_strong_match |-> 0,
                     jobs_weak_match |-> 0, jobs_no_match |-> 0,
                     jobs_duplicate |-> 0])

\* the catch block and the finally of runPipeline; recordOk is whether the
\* write that records the failure goes through (its exception is swallowed)
Fatal(m, errorMsg, recordOk) ==
  LET l == m.loc
      runs == IF recordOk
              THEN recordFailure(m.search_runs, l.runId, l.trigger, errorMsg)
              ELSE m.search_runs
      recId == IF ~recordOk THEN NullId
               ELSE IF l.runId # NullId THEN l.runId ELSE Len(m.search_runs) + 1
  IN Finally(
       [m EXCEPT
          !.search_runs = runs,
          !.lastRunResult = zeroResult("failed", <<errorMsg>>, l.trigger),
          !.pc = "idle",
          !.loc = NoLocals,
          !.hist = [m.hist EXCEPT
                      !.last = lastOf(m, "fatal", recordOk, recId, runs, "failed", errorMsg),
                      !.cur = NoCur,
                      !.inflight = m.hist.inflight - 1,
                      !.lost = IF ~recordOk /\ l.runId = NullId
                               THEN m.hist.lost + 1 ELSE m.hist.lost]])

\* a final status that ignores the error list
finalStatus_ignoresErrors(errors) == "success"

\* line 413: the status of a run that reached step 8
finalStatus(errors) == IF Len(errors) = 0 THEN "success" ELSE "partial_error"

\* step 8 of runPipeline, the return and the finally
Finalize(m, failAt, recordOk) ==
  IF failAt = "finalUpdate" THEN Fatal(m, "db error", recordOk)
  ELSE
    LET l == m.loc
        status == finalStatus(l.errors)
        runs == [m.search_runs EXCEPT ![l.runId] =
                  [status |-> status, trigger |-> l.trigger,
                   error_log |-> l.errors, jobs_fetched |-> l.jobsFetched,
                   jobs_scored |-> l.jobsScored,
                   jobs_strong_match |-> l.jobsStrongMatch,
                   jobs_weak_match |-> l.jobsWeakMatch,
                   jobs_no_match |-> l.jobsNoMatch,
                   jobs_duplicate |-> l.jobsDuplicate]]
        clean == /\ status = "success"
                 /\ ~m.hist.cur.dropped
    IN Finally(
         [m EXCEPT
            !.search_runs = runs,
            !.lastRunResult =
               [status |-> status, errorLog |-> l.errors, trigger |-> l.trigger,
                jobsFetched |-> l.jobsFetched, jobsScored |-> l.jobsScored,
                jobsStrongMatch |-> l.jobsStrongMatch,
                jobsWeakMatch |-> l.jobsWeakMatch, jobsNoMatch |-> l.jobsNoMatch,
                jobsDuplicate |-> l.jobsDuplicate],
            !.pc = "idle",
            !.loc = NoLocals,
            !.hist = [m.hist EXCEPT
                        !.last = lastOf(m, "completed", TRUE, l.runId, runs, status, "none"),
                        !.cur = NoCur,
                        !.inflight = m.hist.inflight - 1,
                        !.cleanAt = IF m.hist.cleanAt = NullId /\ clean
                                    THEN l.runId ELSE m.hist.cleanAt,
                        !.someSuccess = m.hist.someSuccess \/ status = "success"]])

\* ------------------------------------------------------------------ runner
\* SELECT * FROM jobs WHERE seen = 0 AND is_duplicate = 0 AND
\* ai_verdict = 'STRONG_MATCH', as the set of row ids
digestJobs(tbl) ==
  {i \in 1..Len(tbl) : /\ ~tbl[i].seen
                       /\ ~tbl[i].is_duplicate
                       /\ tbl[i].ai_verdict = "STRONG_MATCH"}

\* the head of the per-group loop: skip inactive groups; after the last
\* group, step 7 (call sendDailyReport when enabled) or step 8
Advance(m, failAt, recordOk) ==
  LET l == m.loc
      later == {i \in (l.gi + 1)..Len(l.groups) : l.groups[i].is_active}
  IN IF later # {}
       THEN [m EXCEPT !.pc = "fetch",
                      !.loc = [l EXCEPT !.gi = CHOOSE i \in later : \A j \in later : i <= j,
                                        !.blacklistedJobs = <<>>, !.newJobs = <<>>,
                                        !.si = 0, !.attempt = 0, !.scoredJobs = <<>>,
                                        !.ci = 0, !.jobResults = <<>>,
                                        !.existingJobs = {}, !.allFetched = <<>>,
                                        !.providerDupes = <<>>]]
     ELSE IF l.email_enabled
       THEN [m EXCEPT !.pc = "email",
                      !.loc = [l EXCEPT !.gi = Len(l.groups) + 1,
                                        !.blacklistedJobs = <<>>, !.newJobs = <<>>,
                                        !.si = 0, !.attempt = 0, !.scoredJobs = <<>>,
                                        !.ci = 0, !.jobResults = <<>>,
                                        !.existingJobs = {}, !.allFetched = <<>>,
                                        !.providerDupes = <<>>,
                                        !.digest = digestJobs(m.jobs)]]
     ELSE Finalize(m, failAt, recordOk)

\* history: some row of `rows` has a stored identifier and other fields
clash(tbl, rows) ==
  \E i \in 1..Len(rows), j \in 1..Len(tbl) :
    /\ rows[i].linkedin_job_id = tbl[j].linkedin_job_id
    /\ rows[i] # tbl[j]

\* steps 5 and 6: log the group's postings, store the blacklisted ones, store
\* the scored ones, each in its own db.transaction
LogAndStore(m, failAt, recordOk) ==
  LET l == m.loc
      group == l.groups[l.gi]
      logs == logAll(m.run_job_logs, l.runId, group, l.blacklistedJobs, "BLACKLISTED")
              \o [i \in 1..Len(l.jobResults) |->
                    LET r == l.jobResults[i]
                    IN logRow(l.runId, group, r.scored.job, r.scored.score,
                              IF r.isDuplicate THEN "DUPLICATE" ELSE r.scored.verdict,
                              r.scored.rejectionCategory)]
      m1 == [m EXCEPT !.run_job_logs = logs]
      blRows == [i \in 1..Len(l.blacklistedJobs) |-> blacklistedRow(l.blacklistedJobs[i], group)]
      jobs1 == insertJobs(m.jobs, blRows)
      m2 == [m1 EXCEPT !.jobs = jobs1,
                       !.hist.ignored = m.hist.ignored \/ clash(m.jobs, blRows)]
      scRows == [i \in 1..Len(l.jobResults) |-> scoredRow(l.jobResults[i], group)]
      jobs2 == insertJobs(jobs1, scRows)
      m3 == [m2 EXCEPT !.jobs = jobs2,
                       !.hist.ignored = m2.hist.ignored \/ clash(jobs1, scRows)]
  IN IF failAt = "groupLog" THEN Fatal(m, "db error", recordOk)
     ELSE IF failAt = "storeBlacklisted" /\ l.blacklistedJobs # <<>>
       THEN Fatal(m1, "db error", recordOk)
     ELSE IF failAt = "storeScored" /\ l.jobResults # <<>>
       THEN Fatal(m2, "db error", recordOk)
     ELSE Advance(m3, failAt, recordOk)

\* runKey: `${company.toLowerCase()}|||${title.toLowerCase()}`
runKey(job) == toLowerCase(job.company) \o <<"|", "|", "|">> \o toLowerCase(job.title)

\* LIMIT of the existing-jobs query
MaxExisting == 5

\* a query that returns the stored postings of any company and title
existingJobsFor_any(tbl, job) == 1..Len(tbl)

\* SELECT id FROM jobs WHERE lower(company) = lower(?) AND lower(title) =
\* lower(?) AND is_duplicate = 0 AND ai_verdict = 'STRONG_MATCH' LIMIT 5
existingJobsFor(tbl, job) ==
  LET hit == {i \in 1..Len(tbl) :
                /\ toLowerCase(tbl[i].company) = toLowerCase(job.company)
                /\ toLowerCase(tbl[i].title) = toLowerCase(job.title)
                /\ ~tbl[i].is_duplicate
                /\ tbl[i].ai_verdict = "STRONG_MATCH"}
  IN {i \in hit : Cardinality({j \in hit : j > i}) < MaxExisting}

\* a loop body that never claims the company+title key
pushResult_neverClaims(l, scored, isDuplicate, duplicateOfId) ==
  [l EXCEPT
     !.jobsDuplicate = IF isDuplicate THEN @ + 1 ELSE @,
     !.jobResults = Append(@, [scored |-> scored, isDuplicate |-> isDuplicate,
                               duplicateOfId |-> duplicateOfId,
                               summary |-> scored.summary]),
     !.ci = @ + 1,
     !.existingJobs = {}]

\* lines 306-318: claim the key, count the posting, push its result
pushResult(l, scored, isDuplicate, duplicateOfId) ==
  LET strong == scored.verdict = "STRONG_MATCH"
  IN [l EXCEPT
        !.seenStrongInRun = IF strong /\ ~isDuplicate
                            THEN @ \cup {runKey(scored.job)} ELSE @,
        !.jobsDuplicate = IF isDuplicate THEN @ + 1 ELSE @,
        !.jobsStrongMatch = IF ~isDuplicate /\ strong THEN @ + 1 ELSE @,
        !.jobsWeakMatch = IF ~isDuplicate /\ scored.verdict = "WEAK_MATCH"
                          THEN @ + 1 ELSE @,
        !.jobsNoMatch = IF ~isDuplicate /\ scored.verdict = "NO_MATCH"
                        THEN @ + 1 ELSE @,
        !.jobResults = Append(@, [scored |-> scored, isDuplicate |-> isDuplicate,
                                  duplicateOfId |-> duplicateOfId,
                                  summary |-> IF strong /\ ~isDuplicate
                                              THEN scored.summary ELSE NullText]),
        !.ci = @ + 1,
        !.existingJobs = {}]

\* history: some stored posting has the company and the title of `job`,
\* compared as the existing-jobs query compares them
priorInStore(tbl, job) ==
  \E i \in 1..Len(tbl) :
    /\ toLowerCase(tbl[i].company) = toLowerCase(job.company)
    /\ toLowerCase(tbl[i].title) = toLowerCase(job.title)

\* history: what step 4b decided for a scored posting; asked is whether
\* dedupAndSummarise was called for it, failed whether that call failed, prior
\* whether storage held a posting of its company and title, claimed whether
\* its key was taken in this run
noteResult(m, before, scored, isDuplicate, asked, failed) ==
  [m EXCEPT !.hist.cur.results = Append(@,
     [gid |-> before.groups[before.gi].id, jobId |-> scored.job.jobId,
      company |-> scored.job.company, title |-> scored.job.title,
      verdict |-> scored.verdict, isDuplicate |-> isDuplicate, asked |-> asked,
      failed |-> failed, prior |-> priorInStore(m.jobs, scored.job),
      claimed |-> \E r \in Range(m.hist.cur.results) :
                    /\ r.verdict = "STRONG_MATCH" /\ ~r.isDuplicate
                    /\ toLowerCase(r.company) = toLowerCase(scored.job.company)
                    /\ toLowerCase(r.title) = toLowerCase(scored.job.title)])]

\* history: a dedupAndSummarise call is issued for `scored`
noteCall2(m, scored) ==
  [m EXCEPT !.hist.cur.call2 = Append(@,
     [gid |-> m.loc.groups[m.loc.gi].id, jobId |-> scored.job.jobId,
      company |-> scored.job.company, verdict |-> scored.verdict, prior |-> priorInStore(m.jobs, scored.job)])]

\* step 4b: the loop over scoredJobs from index ci, up to the next await of
\* dedupAndSummarise or to the end of the group
RECURSIVE Call2Loop(_, _, _)
Call2Loop(m, failAt, recordOk) ==
  LET l == m.loc
  IN IF l.ci > Len(l.scoredJobs) THEN LogAndStore(m, failAt, recordOk)
     ELSE
       LET scored == l.scoredJobs[l.ci]
       IN IF scored.verdict # "STRONG_MATCH"
            THEN Call2Loop(noteResult([m EXCEPT !.loc = pushResult(l, scored, FALSE, NullId)],
                                      l, scored, FALSE, FALSE, FALSE),
                           failAt, recordOk)
          ELSE IF runKey(scored.job) \in l.seenStrongInRun
            THEN Call2Loop(noteResult([m EXCEPT !.loc = pushResult(l, scored, TRUE, NullId)],
                                      l, scored, TRUE, FALSE, FALSE),
                           failAt, recordOk)
          ELSE IF failAt = "existingQuery" THEN Fatal(m, "db error", recordOk)
          ELSE IF existingJobsFor(m.jobs, scored.job) # {}
            THEN noteCall2([m EXCEPT !.pc = "dedup",
                                     !.loc.existingJobs = existingJobsFor(m.jobs, scored.job)],
                           scored)
          ELSE Call2Loop(noteResult([m EXCEPT !.loc = pushResult(l, scored, FALSE, NullId)],
                                    l, scored, FALSE, FALSE, FALSE),
                         failAt, recordOk)

\* ------------------------------------------------------------------ scorer
\* a scorer that takes the verdict the model returned
scoreOutput_trustsModel(job, output, group) ==
  LET score == clampScore(output.score2)
  IN [job |-> job, score |-> score, verdict |-> output.verdict,
      rejectionCategory |-> NullCat, summary |-> NullText]

\* lines 192-206 of scoreJobs: the ScoredJob made from a model output
scoreOutput(job, output, group) ==
  LET score == clampScore(output.score2)
      verdict == computeVerdict(score, group)
      given == IF output.summary = NullText THEN <<>> ELSE trim(output.summary)
  IN [job |-> job, score |-> score, verdict |-> verdict,
      rejectionCategory |->
        IF verdict = "NO_MATCH" /\ output.rejection_category # "NONE"
        THEN output.rejection_category ELSE NullCat,
      summary |-> IF verdict = "STRONG_MATCH" /\ given # <<>> THEN given ELSE NullText]

\* ------------------------------------------------------------------ dedup
InStore(job, tbl) == job.jobId \in storedIds(tbl)

\* a lookup that finds no identifier stored
NotInStore_always(job, tbl) == TRUE

NotInStore(job, tbl) == job.jobId \notin storedIds(tbl)

\* a deduplicator that finds nothing stored
filterNewJobs_allNew(list, tbl) == [newJobs |-> list, providerDupes |-> <<>>]

\* filterNewJobs: the partition of a list against the stored identifiers
filterNewJobs(list, tbl) ==
  [newJobs |-> SelectSeq2(list, NotInStore, tbl),
   providerDupes |-> SelectSeq2(list, InStore, tbl)]

PassesTitle(job, filter) == matchesTitleFilter(job.title, filter)
FailsTitle(job, filter) == ~matchesTitleFilter(job.title, filter)
IsBlacklisted(job, names) == trim(toLowerCase(job.company)) \in names

\* a blacklist filter that removes nothing
NotBlacklisted_all(job, names) == TRUE

NotBlacklisted(job, names) == trim(toLowerCase(job.company)) \notin names
SeenId(job, ids) == job.jobId \in ids

\* a cross-group pass that lets every posting through
UnseenId_all(job, ids) == TRUE

UnseenId(job, ids) == job.jobId \notin ids

\* a batch pass that collapses nothing
batchSplit_keepsAll(list, seenInBatch, batchUnique, batchDupes) ==
  [batchUnique |-> list, batchDupes |-> <<>>]

\* lines 203-209: the first occurrence of each identifier, and the repeats
RECURSIVE batchSplit(_, _, _, _)
batchSplit(list, seenInBatch, batchUnique, batchDupes) ==
  IF list = <<>> THEN [batchUnique |-> batchUnique, batchDupes |-> batchDupes]
  ELSE IF Head(list).jobId \in seenInBatch
    THEN batchSplit(Tail(list), seenInBatch, batchUnique, Append(batchDupes, Head(list)))
  ELSE batchSplit(Tail(list), seenInBatch \cup {Head(list).jobId},
                  Append(batchUnique, Head(list)), batchDupes)

\* steps 1 to 4 for the group at gi, from the fetch result to the call of
\* scoreJobs (or on to step 4b when nothing is new)
ProcessFetched(m, allFetched, failAt, recordOk) ==
  LET l == m.loc
      group == l.groups[l.gi]
      hasFilter == trim(group.title_filter) # <<>>
      titleFiltered == IF hasFilter
                       THEN SelectSeq2(allFetched, FailsTitle, group.title_filter)
                       ELSE <<>>
      titled == IF hasFilter
                THEN SelectSeq2(allFetched, PassesTitle, group.title_filter)
                ELSE allFetched
      m1 == [m EXCEPT !.loc.jobsFetched = @ + Len(allFetched),
                      !.hist.cur.processed = @ \cup {group.id},
                      !.hist.cur.seenBefore = l.seenInRunJobIds,
                      !.hist.cur.logsBefore = Len(m.run_job_logs),
                      !.run_job_logs = logAll(@, l.runId, group, titleFiltered, "FILTERED")]
      blacklistedJobs == SelectSeq2(titled, IsBlacklisted, l.blacklistNames)
      allowed == SelectSeq2(titled, NotBlacklisted, l.blacklistNames)
      split == batchSplit(allowed, {}, <<>>, <<>>)
      withinRunDupes == split.batchDupes
                        \o SelectSeq2(split.batchUnique, SeenId, l.seenInRunJobIds)
      fresh == SelectSeq2(split.batchUnique, UnseenId, l.seenInRunJobIds)
      m2 == [m1 EXCEPT !.loc.blacklistedJobs = blacklistedJobs,
                       !.loc.allFetched = fresh,
                       !.loc.seenInRunJobIds = @ \cup {fresh[i].jobId : i \in 1..Len(fresh)},
                       !.loc.jobsDuplicate = @ + Len(withinRunDupes)]
      m3 == [m2 EXCEPT !.run_job_logs = logAll(@, l.runId, group, withinRunDupes, "DUPLICATE")]
      part == filterNewJobs(fresh, m.jobs)
      m4 == [m3 EXCEPT !.loc.jobsDuplicate = @ + Len(part.providerDupes)]
      m5 == [m4 EXCEPT !.run_job_logs = logAll(@, l.runId, group, part.providerDupes, "DUPLICATE"),
                       !.loc.newJobs = part.newJobs,
                       !.loc.providerDupes = part.providerDupes,
                       !.loc.scoredJobs = <<>>, !.loc.jobResults = <<>>]
  IN IF failAt = "filteredLog" /\ titleFiltered # <<>>
       THEN Fatal([m EXCEPT !.loc.jobsFetched = @ + Len(allFetched)], "db error", recordOk)
     ELSE IF failAt = "dupLog" /\ withinRunDupes # <<>>
       THEN Fatal(m2, "db error", recordOk)
     ELSE IF failAt = "filterNewJobs" /\ fresh # <<>>
       THEN Fatal(m3, "db error", recordOk)
     ELSE IF failAt = "provDupLog" /\ part.providerDupes # <<>>
       THEN Fatal(m4, "db error", recordOk)
     ELSE IF part.newJobs # <<>>
       THEN [m5 EXCEPT !.pc = "score", !.loc.si = 1, !.loc.attempt = 1]
     ELSE Call2Loop([m5 EXCEPT !.loc.ci = 1], failAt, recordOk)

\* ------------------------------------------------------------------ outcomes
\* <<failAt, recordOk>>: the operations among `points` that the environment
\* lets throw; recordOk only matters when something throws
Throws(points) ==
  {<<"none", TRUE>>} \cup ((points \cap env.throws) \X env.recordOk)

StartThrows == Throws({"getDb", "insertRun", "finalUpdate"})

GroupThrows == Throws(FailPoints \ {"getDb", "insertRun"})

LoopThrows ==
  Throws({"existingQuery", "groupLog", "storeBlacklisted", "storeScored", "finalUpdate"})

EndThrows == Throws({"finalUpdate"})

\* what the model can answer in dedupAndSummarise
DedupOutputs(existing) ==
  {[is_duplicate |-> TRUE, duplicate_of_id |-> d] : d \in existing \cup {NullId}}
  \cup {[is_duplicate |-> FALSE, duplicate_of_id |-> d] : d \in existing \cup {NullId}}

\* ------------------------------------------------------------------ triggers
\* a rejection that reports the run in progress as its own status
AlreadyRunning_asRunning(trigger) ==
  [trigger |-> trigger, outcome |-> "rejected", status |-> "running",
   errorLog |-> <<>>]

\* the result runPipeline returns when a run is in progress
AlreadyRunning(trigger) ==
  [trigger |-> trigger, outcome |-> "rejected", status |-> "failed",
   errorLog |-> <<"Pipeline already running">>]

\* runPipeline from the flag (line 67) to its first await
StartRun(trigger, failAt, recordOk) ==
  LET m0 == [Machine EXCEPT
               !.isRunning = TRUE,
               !.loc = [NoLocals EXCEPT !.trigger = trigger],
               !.hist.cur = [NoCur EXCEPT !.rowsAtStart = Len(search_runs),
                                         !.jobsAtStart = Len(jobs)],
               !.hist.inflight = @ + 1]
      m1 == [m0 EXCEPT
               !.search_runs = Append(@, [status |-> "running", trigger |-> trigger,
                                          error_log |-> <<>>, jobs_fetched |-> 0,
                                          jobs_scored |-> 0, jobs_strong_match |-> 0,
                                          jobs_weak_match |-> 0, jobs_no_match |-> 0,
                                          jobs_duplicate |-> 0]),
               !.loc.runId = Len(search_runs) + 1,
               !.loc.groups = search_groups,
               !.loc.email_enabled = settings.email_enabled,
               !.loc.blacklistNames = {trim(toLowerCase(b)) : b \in blacklisted_companies}]
  IN IF failAt = "getDb" THEN Fatal(m0, "db error", recordOk)
     ELSE IF ~settings.present
       THEN Fatal(m0, "Settings not found in database", recordOk)
     ELSE IF Len(search_groups) = 0
       THEN Fatal(m0, "No roles configured. Add at least one role in Settings.", recordOk)
     ELSE IF failAt = "insertRun" THEN Fatal(m0, "db error", recordOk)
     ELSE Advance(m1, failAt, recordOk)

\* runPipeline without the isRunning test of line 50
runPipeline_noGate(trigger, failAt, recordOk) ==
  /\ accepted < MaxRuns
  /\ accepted' = accepted + 1
  /\ ret' = [trigger |-> trigger, outcome |-> "accepted",
             status |-> "none", errorLog |-> <<>>]
  /\ Becomes(StartRun(trigger, failAt, recordOk))

runPipeline(trigger, failAt, recordOk) ==
  IF isRunning
    THEN /\ ret' = AlreadyRunning(trigger)
         /\ UNCHANGED <<isRunning, lastRunResult, search_runs, jobs, run_job_logs,
                        pc, loc, accepted, hist>>
  ELSE /\ accepted < MaxRuns
       /\ accepted' = accepted + 1
       /\ ret' = [trigger |-> trigger, outcome |-> "accepted",
                  status |-> "none", errorLog |-> <<>>]
       /\ Becomes(StartRun(trigger, failAt, recordOk))

\* the cron callback
RunPipelineScheduled ==
  /\ env.cron
  /\ \E t \in StartThrows : runPipeline("scheduled", t[1], t[2])
  /\ UNCHANGED config

\* router.post('/run')
PostRun ==
  /\ IF isRunning
       THEN /\ ret' = [trigger |-> "manual", outcome |-> "409", status |-> "none",
                       errorLog |-> <<"Pipeline is already running.">>]
            /\ UNCHANGED <<isRunning, lastRunResult, search_runs, jobs, run_job_logs,
                           pc, loc, accepted, hist>>
     ELSE \E t \in StartThrows : runPipeline("manual", t[1], t[2])
  /\ UNCHANGED config

\* ------------------------------------------------------------------ awaits
\* a fetch error that is rethrown instead of recorded
fetchRejected_aborts(m, group, failAt, recordOk) ==
  Fatal(m, "Group fetch error", recordOk)

\* lines 164-169: the catch of the fetch, then `continue`
fetchRejected(m, group, failAt, recordOk) ==
  Advance([m EXCEPT !.loc.errors = Append(@, <<"Group fetch error", group.id>>)],
          failAt, recordOk)

\* fetchJobs resolves or rejects for the group at gi
FetchJobsReturn ==
  /\ pc = "fetch"
  /\ \E ok \in env.fetch, t \in GroupThrows :
       LET group == loc.groups[loc.gi]
           failAt == t[1]
           recordOk == t[2]
       IN IF ok
            THEN Becomes(ProcessFetched(Machine, feed[group.id], failAt, recordOk))
          ELSE Becomes(fetchRejected(
                 [Machine EXCEPT !.hist.cur.fetchFailed = @ \cup {group.id}],
                 group, failAt, recordOk))
  /\ ret' = NoReturn
  /\ UNCHANGED <<config, accepted>>

\* substring(0, 8_000) of buildScoringUserMessage, and the substring(0, 3_000)
\* the retry applies before it
FirstCap == 8000
RetryCap == 3000

\* the longest description the attempt sends
descriptionCap(attempt) == IF attempt = 1 THEN FirstCap ELSE Min(RetryCap, FirstCap)

\* a scoreJobs that skips the posting when the first attempt fails
scoreStep_noRetry(l, out, job, group) ==
  IF out.verdict = "error" THEN [l EXCEPT !.si = @ + 1, !.attempt = 1]
  ELSE [l EXCEPT !.si = @ + 1, !.attempt = 1,
                 !.scoredJobs = Append(@, scoreOutput(job, out, group))]

\* one turn of the loop of scoreJobs, from the moment callScoringLlm settles
\* with `out`: retry after a first failure, skip the posting after a second,
\* push the ScoredJob otherwise
scoreStep(l, out, job, group) ==
  IF out.verdict = "error" /\ l.attempt = 1 THEN [l EXCEPT !.attempt = 2]
  ELSE IF out.verdict = "error" THEN [l EXCEPT !.si = @ + 1, !.attempt = 1]
  ELSE [l EXCEPT !.si = @ + 1, !.attempt = 1,
                 !.scoredJobs = Append(@, scoreOutput(job, out, group))]

\* a counter of the postings sent to scoreJobs
countScored_sent(l) == l.jobsScored + Len(l.newJobs)

\* jobsScored += scoredJobs.length
countScored(l) == l.jobsScored + Len(l.scoredJobs)

\* one callScoringLlm of scoreJobs resolves or rejects, for newJobs[si]
CallScoringLlmReturn ==
  /\ pc = "score"
  /\ \E t \in LoopThrows :
     \E out \in env.llm :
       LET failAt == t[1]
           recordOk == t[2]
           l == loc
           job == l.newJobs[l.si]
           group == l.groups[l.gi]
           failed == out.verdict = "error"
           l1 == scoreStep(l, out, job, group)
           skipped == l1.si > l.si /\ Len(l1.scoredJobs) = Len(l.scoredJobs)
           m1 == [Machine EXCEPT
                    !.loc = l1,
                    !.hist.cur.dropped = @ \/ skipped,
                    !.hist.cur.skipped = IF skipped THEN @ \cup {<<group.id, job>>}
                                            ELSE @,
                    !.hist.cur.call1 = Append(@, [gid |-> group.id, jobId |-> job.jobId,
                                                  company |-> job.company,
                                                  attempt |-> l.attempt,
                                                  cap |-> descriptionCap(l.attempt),
                                                  category |-> out.rejection_category,
                                                  ok |-> ~failed]),
                    !.hist.cur.scoredIds = IF failed THEN @ ELSE @ \cup {job.jobId}]
       IN IF l1.si <= Len(l1.newJobs) THEN Becomes(m1)
          ELSE Becomes(Call2Loop(
                 [m1 EXCEPT !.loc.jobsScored = countScored(l1),
                            !.loc.si = 0, !.loc.attempt = 0, !.loc.ci = 1],
                 failAt, recordOk))
  /\ ret' = NoReturn
  /\ UNCHANGED <<config, accepted>>

\* a catch that takes a failed check for a duplicate of the first candidate
dedupResult_duplicateOnFailure(callOk, output) ==
  IF callOk /\ ~output.is_duplicate
    THEN [isDuplicate |-> FALSE, duplicateOfId |-> NullId]
  ELSE [isDuplicate |-> TRUE, duplicateOfId |-> output.duplicate_of_id]

\* what dedupAndSummarise returns: the model's answer (duplicate_of_id only
\* with is_duplicate), or the non-duplicate default of the catch
dedupResult(callOk, output) ==
  IF callOk /\ output.is_duplicate
    THEN [isDuplicate |-> TRUE, duplicateOfId |-> output.duplicate_of_id]
  ELSE [isDuplicate |-> FALSE, duplicateOfId |-> NullId]

\* dedupAndSummarise returns for scoredJobs[ci]: the model's answer, or the
\* non-duplicate default when the call failed
DedupAndSummariseReturn ==
  /\ pc = "dedup"
  /\ \E t \in LoopThrows, callOk \in env.call2 :
     \E output \in DedupOutputs(loc.existingJobs) :
       LET failAt == t[1]
           recordOk == t[2]
           dedup == dedupResult(callOk, output)
           isDuplicate == dedup.isDuplicate
           duplicateOfId == dedup.duplicateOfId
           scored == loc.scoredJobs[loc.ci]
           l1 == pushResult(loc, scored, isDuplicate, duplicateOfId)
       IN Becomes(Call2Loop(noteResult([Machine EXCEPT !.loc = l1, !.pc = "score"],
                                       loc, scored, isDuplicate, TRUE, ~callOk),
                            failAt, recordOk))
  /\ ret' = NoReturn
  /\ UNCHANGED <<config, accepted>>

\* an UPDATE without its WHERE
markSeen_all(tbl, ids) == [i \in 1..Len(tbl) |-> [tbl[i] EXCEPT !.seen = TRUE]]

\* UPDATE jobs SET seen = 1 WHERE id IN (...)
markSeen(tbl, ids) ==
  [i \in 1..Len(tbl) |-> IF i \in ids THEN [tbl[i] EXCEPT !.seen = TRUE] ELSE tbl[i]]

\* sendDailyReport settles, then steps 7 (catch) and 8 of the runner
SendDailyReportReturn ==
  /\ pc = "email"
  /\ \E outcome \in env.email, t \in EndThrows :
       LET failAt == t[1]
           recordOk == t[2]
           threw == outcome \in {"queryThrew", "markThrew"} /\ (outcome = "markThrew" => loc.digest # {})
           m1 == [Machine EXCEPT
                    !.jobs = IF outcome = "sent" THEN markSeen(@, loc.digest) ELSE @,
                    !.loc.errors = IF threw THEN Append(@, <<"Email send error">>) ELSE @,
                    !.hist.cur.sendFailed = outcome = "sendFailed",
                    !.hist.cur.email = IF outcome = "markThrew" /\ ~threw
                                       THEN "sent" ELSE outcome]
       IN Becomes(Finalize(m1, failAt, recordOk))
  /\ ret' = NoReturn
  /\ UNCHANGED <<config, accepted>>

Next ==
  \/ RunPipelineScheduled
  \/ PostRun
  \/ FetchJobsReturn
  \/ CallScoringLlmReturn
  \/ DedupAndSummariseReturn
  \/ SendDailyReportReturn

Spec == Init /\ [][Next]_vars

\* ------------------------------------------------------------------ scorer harness
\* thresholds the harness tries, around the defaults and the ends of 0..99
ThresholdGrid == {0, 1, 49, 50, 51, 69, 70, 71, 98, 99}

Verdicts == {"STRONG_MATCH", "WEAK_MATCH", "NO_MATCH"}

\* model outputs (score in halves, beyond 0..100 by ScoreMargin on each side)
\* and thresholds with noMatchMax < weakMatchMax
ScoreInputs ==
  {[score2 |-> s, verdict |-> v, noMatchMax |-> a, weakMatchMax |-> b] :
     s \in (0 - 2 * ScoreMargin)..(200 + 2 * ScoreMargin), v \in Verdicts,
     a \in ThresholdGrid, b \in ThresholdGrid}

InitVerdict ==
  /\ isRunning = FALSE
  /\ lastRunResult = [status |-> "none"]
  /\ settings = [present |-> TRUE, email_enabled |-> FALSE]
  /\ search_groups = <<>>
  /\ blacklisted_companies = {}
  /\ feed = NoFeed
  /\ env = Calm
  /\ search_runs = <<>>
  /\ jobs = <<>>
  /\ run_job_logs = <<>>
  /\ pc = "idle"
  /\ loc = NoLocals
  /\ ret = NoReturn
  /\ vin \in {i \in ScoreInputs : i.noMatchMax < i.weakMatchMax}
  /\ vout = NoOutput
  /\ accepted = 0
  /\ hist = NoHist

\* scoreJobs on one posting whose callScoringLlm resolved to vin, for a group
\* with vin's thresholds
ScoreOne ==
  /\ vout = NoOutput
  /\ LET output == [score2 |-> vin.score2, verdict |-> vin.verdict,
                    rejection_category |-> "NONE", summary |-> NullText]
         group == [GroupA EXCEPT !.score_no_match_max = vin.noMatchMax,
                                 !.score_weak_match_max = vin.weakMatchMax,
                                 !.score_strong_match_min = vin.weakMatchMax + 1]
         scored == scoreOutput(PostA, output, group)
     IN vout' = [verdict |-> scored.verdict, score |-> scored.score]
  /\ UNCHANGED <<isRunning, lastRunResult, settings, search_groups,
                 blacklisted_companies, feed, env, search_runs, jobs,
                 run_job_logs, pc, loc, ret, vin, accepted, hist>>

NextVerdict == ScoreOne

SpecVerdict == InitVerdict /\ [][NextVerdict]_vars

\* ------------------------------------------------------------------ title-filter harness
\* every text of at most n characters over an alphabet
Texts(alphabet, n) == UNION {[1..k -> alphabet] : k \in 0..n}

\* titles: words in both cases, a separator that is not a space
TitleTexts == Texts({"a", "B", " ", "-"}, MaxTitleLen)

\* filter texts: words, spaces, a separator and line breaks
FilterTexts == Texts({"a", "b", " ", "-", "\n"}, MaxFilterLen)

\* one group with a filter text, one posting with a title, nothing that fails
InitTitle ==
  /\ isRunning = FALSE
  /\ lastRunResult = [status |-> "none"]
  /\ settings = [present |-> TRUE, email_enabled |-> FALSE]
  /\ \E f \in FilterTexts : search_groups = <<[GroupA EXCEPT !.title_filter = f]>>
  /\ blacklisted_companies = {}
  /\ \E t \in TitleTexts : feed = [g \in {1, 2} |-> <<[PostA EXCEPT !.title = t]>>]
  /\ env = Calm
  /\ search_runs = <<>>
  /\ jobs = <<>>
  /\ run_job_logs = <<>>
  /\ pc = "idle"
  /\ loc = NoLocals
  /\ ret = NoReturn
  /\ vin = NoInput
  /\ vout = NoOutput
  /\ accepted = 0
  /\ hist = NoHist

\* the first manual trigger
PostRunOnce == accepted = 0 /\ PostRun

NextTitle ==
  \/ PostRunOnce
  \/ FetchJobsReturn
  \/ CallScoringLlmReturn

SpecTitle == InitTitle /\ [][NextTitle]_vars

\* ------------------------------------------------------------------ boilerplate
\* A description is a tuple of tokens: a word, or one character that is not
\* a word character (space, line break, hyphen, colon).  Two word tokens side
\* by side read as one longer word.
IsWordToken(t) == t \notin {" ", "\n", "-", ":"}

\* \b before position i and after position j of a word
boundaryBefore(s, i) == i = 1 \/ ~IsWordToken(s[i - 1])
boundaryAfter(s, j) == j = Len(s) \/ ~IsWordToken(s[j + 1])

\* /\bequal[\s-]opportunity[\s-](employer|employment)\b/i matches at i
equalOpportunityAt(s, i) ==
  /\ i + 4 <= Len(s)
  /\ s[i] = "equal" /\ boundaryBefore(s, i)
  /\ s[i + 1] \in {" ", "\n", "-"}
  /\ s[i + 2] = "opportunity"
  /\ s[i + 3] \in {" ", "\n", "-"}
  /\ s[i + 4] \in {"employer", "employment"} /\ boundaryAfter(s, i + 4)

\* \s*[:\n] matches from position k on
headerEndAt(s, k) ==
  \E j \in k..Len(s) :
    /\ \A n \in k..(j - 1) : IsSpace(s[n])
    /\ s[j] \in {":", "\n"}

\* (?:^|\n) with the m flag, then the words of `head` with single spaces
\* between them, then \s*[:\n], matches at i
headerAt(s, i, head) ==
  LET lineStart == i = 1 \/ s[i - 1] = "\n"
      wordsAt(k) == /\ k + Len(head) - 1 <= Len(s)
                    /\ SubSeq(s, k, k + Len(head) - 1) = head
                    /\ headerEndAt(s, k + Len(head))
  IN \/ lineStart /\ wordsAt(i)
     \/ s[i] = "\n" /\ wordsAt(i + 1)

\* BOILERPLATE_PATTERNS, in the order of the source: the equal-opportunity
\* phrase, the benefits header (its alternative "benefits") and the about-us
\* header (its alternative "about us"); the three phrase patterns in between
\* have the shape of the first and are left out
BOILERPLATE_PATTERNS == <<"equal opportunity", "benefits", "about us">>
NumPatterns == Len(BOILERPLATE_PATTERNS)

patternAt(k, s, i) ==
  CASE BOILERPLATE_PATTERNS[k] = "equal opportunity" -> equalOpportunityAt(s, i)
    [] BOILERPLATE_PATTERNS[k] = "benefits" -> headerAt(s, i, <<"benefits">>)
    [] BOILERPLATE_PATTERNS[k] = "about us" -> headerAt(s, i, <<"about", " ", "us">>)

\* pattern.exec(text): the positions of its matches; match.index is the least
execAll(k, s) == {i \in 1..Len(s) : patternAt(k, s, i)}
matchIndex(k, s) == CHOOSE i \in execAll(k, s) : \A j \in execAll(k, s) : i <= j

\* the loop of trimBoilerplate from pattern k on; cutAt is one past the last
\* character kept
RECURSIVE cutFrom(_, _, _)
cutFrom(k, text, cutAt) ==
  IF k > NumPatterns THEN cutAt
  ELSE IF execAll(k, text) # {} /\ matchIndex(k, text) < cutAt
    THEN cutFrom(k + 1, text, matchIndex(k, text))
  ELSE cutFrom(k + 1, text, cutAt)

\* a trimmer that cuts at the match of the last pattern only
trimBoilerplate_lastPattern(text) ==
  trimEnd(SubSeq(text, 1, cutFrom(NumPatterns, text, Len(text) + 1) - 1))

\* text.substring(0, cutAt).trimEnd()
trimBoilerplate(text) ==
  trimEnd(SubSeq(text, 1, cutFrom(1, text, Len(text) + 1) - 1))

\* .replace(/\n{3,}/g, '\n\n')
RECURSIVE collapseBreaks(_)
collapseBreaks(s) ==
  IF Len(s) >= 3 /\ s[1] = "\n" /\ s[2] = "\n" /\ s[3] = "\n"
    THEN collapseBreaks(Tail(s))
  ELSE IF s = <<>> THEN <<>>
  ELSE <<Head(s)>> \o collapseBreaks(Tail(s))

\* stripHtml on a description without tags and entities
stripHtml(html) == trim(collapseBreaks(html))

\* plain text, and the phrases a description is put together from: the
\* boilerplate phrases, a phrase one word short and a header inside a line
Fill == Texts({"x", " ", "\n"}, MaxFillLen)

Phrases ==
  { <<>>,
    <<"equal", " ", "opportunity", "-", "employer">>,
    <<"equal", " ", "opportunity">>,
    <<"\n", "benefits", ":">>,
    <<"\n", "about", " ", "us", " ", "\n">>,
    <<"x", "about", " ", "us", ":">> }

Descriptions ==
  {p \o b1 \o q \o b2 : p \in Fill, q \in Fill, b1 \in Phrases, b2 \in Phrases}

InitTrim ==
  /\ isRunning = FALSE
  /\ lastRunResult = [status |-> "none"]
  /\ settings = [present |-> TRUE, email_enabled |-> FALSE]
  /\ search_groups = <<>>
  /\ blacklisted_companies = {}
  /\ feed = NoFeed
  /\ env = Calm
  /\ search_runs = <<>>
  /\ jobs = <<>>
  /\ run_job_logs = <<>>
  /\ pc = "idle"
  /\ loc = NoLocals
  /\ ret = NoReturn
  /\ vin \in {[description |-> d] : d \in Descriptions}
  /\ vout = NoOutput
  /\ accepted = 0
  /\ hist = NoHist

\* trimBoilerplate(stripHtml(job.description)) of buildScoringUserMessage
TrimOne ==
  /\ vout = NoOutput
  /\ vout' = [input |-> stripHtml(vin.description),
              text |-> trimBoilerplate(stripHtml(vin.description))]
  /\ UNCHANGED <<isRunning, lastRunResult, settings, search_groups,
                 blacklisted_companies, feed, env, search_runs, jobs,
                 run_job_logs, pc, loc, ret, vin, accepted, hist>>

NextTrim == TrimOne

SpecTrim == InitTrim /\ [][NextTrim]_vars

\* ------------------------------------------------------------------ group API
\* a threshold of a request body: a JSON number given in halves (twice = 141
\* is 70.5), a string that is no number, or a field that is absent
Num(twice) == [kind |-> "number", twice |-> twice]
NoNumber == [kind |-> "text", twice |-> 0]
Absent == [kind |-> "absent", twice |-> 0]

NaN == [nan |-> TRUE, n |-> 0]

\* parseInt(String(raw ?? dflt), 10): the integer part of a number, NaN for
\* a string without leading digits, the default for an absent field
parseInt10(raw, dflt) ==
  CASE raw.kind = "absent" -> [nan |-> FALSE, n |-> dflt]
    [] raw.kind = "text" -> NaN
    [] OTHER -> [nan |-> FALSE,
                 n |-> IF raw.twice >= 0 THEN raw.twice \div 2
                       ELSE 0 - ((0 - raw.twice) \div 2)]

\* a test of the thresholds that leaves strong_match_min alone
thresholdsOk_noStrongCheck(noMatchMax, weakMatchMax, strongMin) ==
  ~( \/ noMatchMax.nan \/ weakMatchMax.nan \/ strongMin.nan
     \/ noMatchMax.n < 0 \/ noMatchMax.n > 99
     \/ weakMatchMax.n <= noMatchMax.n \/ weakMatchMax.n > 99 )

\* the negation of the condition of lines 373-378 of parseGroupBody
thresholdsOk(noMatchMax, weakMatchMax, strongMin) ==
  ~( \/ noMatchMax.nan \/ weakMatchMax.nan \/ strongMin.nan
     \/ noMatchMax.n < 0 \/ noMatchMax.n > 99
     \/ weakMatchMax.n <= noMatchMax.n \/ weakMatchMax.n > 99
     \/ strongMin.n # weakMatchMax.n + 1 )

\* parseGroupBody: the parsed body, or the error it throws
parseGroupBody(b) ==
  LET noMatchMax == parseInt10(b.score_no_match_max, 50)
      weakMatchMax == parseInt10(b.score_weak_match_max, 70)
      strongMin == parseInt10(b.score_strong_match_min, 71)
  IN IF ~b.lists THEN [ok |-> FALSE, error |-> "list required"]
     ELSE IF ~thresholdsOk(noMatchMax, weakMatchMax, strongMin)
       THEN [ok |-> FALSE, error |-> "Invalid score thresholds"]
     ELSE [ok |-> TRUE, error |-> "none",
           score_no_match_max |-> noMatchMax.n,
           score_weak_match_max |-> weakMatchMax.n,
           score_strong_match_min |-> strongMin.n]

\* the count at which POST /groups answers 409
GroupLimit == 15

\* request bodies: locations, keywords and work modes all given or not, and
\* thresholds around the ends of 0..99 and around the defaults
GroupBodies ==
  {[lists |-> l, score_no_match_max |-> a, score_weak_match_max |-> b,
    score_strong_match_min |-> c] :
     l \in BOOLEAN,
     a \in {Num(0 - 1), Num(0), Num(100), NoNumber, Absent},
     b \in {Num(140), Num(198), Num(199), Num(200)},
     c \in {Num(142), Num(143), Num(200), Absent}}

NoRequest == [route |-> "none"]
NoResponse == [status |-> 0, error |-> "none"]

InitGroups ==
  /\ isRunning = FALSE
  /\ lastRunResult = [status |-> "none"]
  /\ settings = [present |-> TRUE, email_enabled |-> FALSE]
  /\ search_groups = <<>>
  /\ blacklisted_companies = {}
  /\ feed = NoFeed
  /\ env = Calm
  /\ search_runs = <<>>
  /\ jobs = <<>>
  /\ run_job_logs = <<>>
  /\ pc = "idle"
  /\ loc = NoLocals
  /\ ret = NoReturn
  /\ vin = NoRequest
  /\ vout = NoResponse
  /\ accepted = 0
  /\ hist = NoHist

\* a client sends POST /groups or PUT /groups/:id
SendGroupRequest ==
  /\ vin = NoRequest
  /\ \E body \in GroupBodies :
       \/ /\ Len(search_groups) < MaxGroupRows
          /\ vin' = [route |-> "POST", id |-> NullId, body |-> body]
       \/ \E id \in 1..(Len(search_groups) + 1) :
            vin' = [route |-> "PUT", id |-> id, body |-> body]
  /\ vout' = NoResponse
  /\ UNCHANGED <<isRunning, lastRunResult, settings, search_groups,
                 blacklisted_companies, feed, env, search_runs, jobs,
                 run_job_logs, pc, loc, ret, accepted, hist>>

\* router.post('/groups')
PostGroups ==
  /\ vin.route = "POST"
  /\ LET body == parseGroupBody(vin.body)
     IN IF Len(search_groups) >= GroupLimit
          THEN /\ vout' = [status |-> 409, error |-> "Maximum of 15 roles reached."]
               /\ UNCHANGED search_groups
        ELSE IF ~body.ok
          THEN /\ vout' = [status |-> 400, error |-> body.error]
               /\ UNCHANGED search_groups
        ELSE /\ search_groups' = Append(search_groups,
                    [id |-> Len(search_groups) + 1, is_active |-> TRUE,
                     title_filter |-> <<>>,
                     score_no_match_max |-> body.score_no_match_max,
                     score_weak_match_max |-> body.score_weak_match_max,
                     score_strong_match_min |-> body.score_strong_match_min])
             /\ vout' = [status |-> 201, error |-> "none"]
  /\ vin' = NoRequest
  /\ UNCHANGED <<isRunning, lastRunResult, settings,
                 blacklisted_companies, feed, env, search_runs, jobs,
                 run_job_logs, pc, loc, ret, accepted, hist>>

\* router.put('/groups/:id')
PutGroups ==
  /\ vin.route = "PUT"
  /\ LET body == parseGroupBody(vin.body)
         existing == {i \in 1..Len(search_groups) : search_groups[i].id = vin.id}
     IN IF ~body.ok
          THEN /\ vout' = [status |-> 400, error |-> body.error]
               /\ UNCHANGED search_groups
        ELSE IF existing = {}
          THEN /\ vout' = [status |-> 404, error |-> "Group not found."]
               /\ UNCHANGED search_groups
        ELSE /\ search_groups' =
                  [i \in 1..Len(search_groups) |->
                     IF i \in existing
                     THEN [search_groups[i] EXCEPT
                             !.score_no_match_max = body.score_no_match_max,
                             !.score_weak_match_max = body.score_weak_match_max,
                             !.score_strong_match_min = body.score_strong_match_min]
                     ELSE search_groups[i]]
             /\ vout' = [status |-> 200, error |-> "none"]
  /\ vin' = NoRequest
  /\ UNCHANGED <<isRunning, lastRunResult, settings,
                 blacklisted_companies, feed, env, search_runs, jobs,
                 run_job_logs, pc, loc, ret, accepted, hist>>

NextGroups ==
  \/ SendGroupRequest
  \/ PostGroups
  \/ PutGroups

SpecGroups == InitGroups /\ [][NextGroups]_vars

\* ------------------------------------------------------------------ the blacklist API
\* DELETE /api/blacklist/:id for an entry that exists
DeleteBlacklist ==
  /\ \E b \in blacklisted_companies :
       blacklisted_companies' = blacklisted_companies \ {b}
  /\ UNCHANGED <<isRunning, lastRunResult, settings, search_groups, feed, env,
                 search_runs, jobs, run_job_logs, pc, loc, ret, vin, vout,
                 accepted, hist>>

\* blacklists that hold the company of PostC and PostD, alone or with the
\* company of PostA and PostB
Blacklists == {{<<"b", " ">>}, {<<" ", "B">>, <<"a", "c">>}}

\* manual runs over a feed with blacklisted companies, while entries of the
\* blacklist are deleted
InitBlacklist ==
  /\ isRunning = FALSE
  /\ lastRunResult = [status |-> "none"]
  /\ settings = [present |-> TRUE, email_enabled |-> FALSE]
  /\ search_groups = <<GroupA, GroupB>>
  /\ blacklisted_companies \in Blacklists
  /\ feed = Feed2
  /\ env = [Calm EXCEPT !.llm = {LlmStrong, LlmNo, LlmError}]
  /\ search_runs = <<>>
  /\ jobs = <<>>
  /\ run_job_logs = <<>>
  /\ pc = "idle"
  /\ loc = NoLocals
  /\ ret = NoReturn
  /\ vin = NoInput
  /\ vout = NoOutput
  /\ accepted = 0
  /\ hist = NoHist

NextBlacklist ==
  \/ PostRun
  \/ FetchJobsReturn
  \/ CallScoringLlmReturn
  \/ DedupAndSummariseReturn
  \/ DeleteBlacklist

SpecBlacklist == InitBlacklist /\ [][NextBlacklist]_vars

\* ------------------------------------------------------------------ claims
Rejections == {"rejected", "409"}

\* C1 (as stated): the number of Run records equals the number of accepted
\* triggers.
C1_RecordsEqualAccepted == Len(search_runs) = accepted

\* C1 (amended): at most one run is in flight; a trigger that arrives while a
\* run is in progress is rejected in the same step, creates no Run record and
\* is not counted as accepted; and the number of Run records equals the number
\* of accepted triggers less the runs that failed before their identifier
\* existed and whose failure record could not be written.
C1_SingleFlight ==
  /\ [](hist.inflight <= 1)
  /\ [](hist.inflight = (IF isRunning THEN 1 ELSE 0))
  /\ [](Len(search_runs) + hist.lost = accepted)
  /\ [][(isRunning /\ ret' # NoReturn)
          => /\ ret'.outcome \in Rejections
             /\ UNCHANGED <<search_runs, accepted, isRunning, pc, loc>>]_vars

\* C1 witness: a scheduled trigger was just rejected while a manual run is in
\* flight
C1_Witness ==
  /\ ret.outcome = "rejected"
  /\ ret.trigger = "scheduled"
  /\ isRunning
  /\ loc.trigger = "manual"
  /\ Len(search_runs) = accepted

\* C2: whenever an accepted run has returned the flag is false, whatever the
\* exit path, and a trigger that comes next is accepted.
C2_FlagCleared ==
  /\ [](pc = "idle" => ~isRunning)
  /\ [](hist.last.ending # "none" /\ hist.inflight = 0 => ~isRunning)
  /\ [][(pc = "idle" /\ ret' # NoReturn) => ret'.outcome = "accepted"]_vars

\* C2 witness: a second run was accepted after the first one ended in a fatal
\* error whose recording threw
C2_Witness ==
  /\ hist.last.ending = "fatal"
  /\ ~hist.last.recorded
  /\ hist.last.rowsAtStart = 0
  /\ accepted = 2
  /\ ret.outcome = "accepted"
  /\ isRunning

\* C3: the verdict of a scored posting is decided by the clamped score and
\* the group's thresholds alone, whatever verdict the model returned: at or
\* above strongMatchMin it is STRONG_MATCH, between noMatchMax and
\* strongMatchMin WEAK_MATCH, at or below noMatchMax NO_MATCH; the score is
\* the model's score rounded and clamped to 0..100.
C3_VerdictFromScore ==
  vout # NoOutput =>
    LET score == vout.score
        strongMatchMin == vin.weakMatchMax + 1
    IN /\ score \in 0..100
       /\ (vin.score2 \in 0..200 /\ vin.score2 % 2 = 0) => score * 2 = vin.score2
       /\ vin.score2 < 0 => score = 0
       /\ vin.score2 > 200 => score = 100
       /\ score >= strongMatchMin => vout.verdict = "STRONG_MATCH"
       /\ (vin.noMatchMax < score /\ score < strongMatchMin)
            => vout.verdict = "WEAK_MATCH"
       /\ score <= vin.noMatchMax => vout.verdict = "NO_MATCH"

\* C3 witness: the model said STRONG_MATCH for a score just above noMatchMax
\* and the posting came out WEAK_MATCH
C3_Witness ==
  /\ vout.verdict = "WEAK_MATCH"
  /\ vin.verdict = "STRONG_MATCH"
  /\ vout.score = vin.noMatchMax + 1
  /\ vin.noMatchMax = 50 /\ vin.weakMatchMax = 70

Terminal == {"success", "partial_error", "failed"}

\* C4 (as stated): every accepted run that hit a fatal error left exactly one
\* Run record, with status failed.
C4_ExactlyOneFailedRecord ==
  hist.last.ending = "fatal" =>
    /\ hist.last.rowsAtReturn = hist.last.rowsAtStart + 1
    /\ search_runs[hist.last.rowsAtReturn].status = "failed"

\* C4 (amended): a run that hit a fatal error left at most one Run record.
\* When the write that records the failure went through, it left exactly one,
\* with status failed: the inserted one when the error came before the
\* identifier, the run's own row (updated, none inserted) when it came after.
\* When that write threw, the exception was swallowed: no record when the
\* error came before the identifier, the run's own row still running after.
C4_OneFailedRecordIfRecorded ==
  hist.last.ending = "fatal" =>
    LET h == hist.last
    IN /\ h.rowsAtReturn <= h.rowsAtStart + 1
       /\ h.recorded =>
            /\ h.rowsAtReturn = h.rowsAtStart + 1
            /\ h.recId = h.rowsAtReturn
            /\ search_runs[h.recId].status = "failed"
            /\ h.runId # NullId => h.recId = h.runId
       /\ (~h.recorded /\ h.runId = NullId) => h.rowsAtReturn = h.rowsAtStart
       /\ (~h.recorded /\ h.runId # NullId) =>
            /\ h.rowsAtReturn = h.rowsAtStart + 1
            /\ search_runs[h.runId].status = "running"

\* C4 witness: a second run threw after its identifier existed and its own
\* row, the second of the table, was updated to failed
C4_Witness ==
  /\ hist.last.ending = "fatal"
  /\ hist.last.recorded
  /\ hist.last.runId = 2
  /\ pc = "idle"
  /\ Len(search_runs) = 2
  /\ search_runs[2].status = "failed"

\* C5: while a group is being processed the run's record exists and is
\* running; a record's status changes only from running, and then to a
\* terminal value; a record with a terminal status is never changed; and the
\* value is success for a run that reached the end with no recorded error,
\* partial_error for one that reached it with recorded errors, failed for one
\* stopped by a fatal error.
C5_StatusLifecycle ==
  /\ [](pc # "idle" => /\ loc.runId \in 1..Len(search_runs)
                       /\ search_runs[loc.runId].status = "running")
  /\ [](\A i \in 1..Len(search_runs) :
          search_runs[i].status \in Terminal \cup {"running"})
  /\ [](hist.last.ending = "completed" =>
          /\ search_runs[hist.last.recId].status = hist.last.status
          /\ hist.last.status = "success" <=> hist.last.errors = <<>>
          /\ hist.last.status = "partial_error" <=> hist.last.errors # <<>>)
  /\ []((hist.last.ending = "fatal" /\ hist.last.recorded) =>
          search_runs[hist.last.recId].status = "failed")
  /\ [][/\ Len(search_runs') >= Len(search_runs)
        /\ \A i \in 1..Len(search_runs) :
             /\ search_runs[i].status \in Terminal => search_runs'[i] = search_runs[i]
             /\ search_runs'[i].status # search_runs[i].status =>
                  /\ search_runs[i].status = "running"
                  /\ search_runs'[i].status \in Terminal]_vars

\* C5 witness: a run that recorded a group error reached the end and its
\* record went from running to partial_error
C5_Witness ==
  /\ hist.last.ending = "completed"
  /\ hist.last.fetchFailed # {}
  /\ hist.last.recId = 1
  /\ search_runs[1].status = "partial_error"
  /\ search_runs[1].error_log # <<>>

\* C6: a run in which a group's fetch failed still reached the end (unless a
\* database error stopped it): each failure is in the error list, every other
\* active group was fetched and processed, the status is partial_error and
\* every posting scored in the other groups is stored.
C6_FetchFailureIsolated ==
  /\ \A g \in hist.cur.fetchFailed :
       /\ <<"Group fetch error", g>> \in Range(loc.errors)
       /\ search_runs[loc.runId].status = "running"
  /\ hist.last.fetchFailed # {} =>
       \/ /\ hist.last.ending = "fatal"
          /\ hist.last.cause = "db error"
       \/ /\ hist.last.ending = "completed"
          /\ hist.last.status = "partial_error"
          /\ search_runs[hist.last.recId].status = "partial_error"
          /\ \A g \in hist.last.fetchFailed :
               <<"Group fetch error", g>> \in Range(search_runs[hist.last.recId].error_log)
          /\ hist.last.processed = hist.last.active \ hist.last.fetchFailed
          /\ hist.last.scoredIds \subseteq storedIds(jobs)

\* C6 witness: the first group's fetch failed, the second group was processed
\* and its posting stored, and the run ended partial_error
C6_Witness ==
  /\ hist.last.ending = "completed"
  /\ hist.last.fetchFailed = {1}
  /\ hist.last.processed = {2}
  /\ hist.last.scoredIds = {2}
  /\ 2 \in storedIds(jobs)
  /\ search_runs[hist.last.recId].status = "partial_error"

\* C7: a run started with no active search group ended with status failed
\* and an error message, and processed no posting.
C7_ConfigErrorIsFatal ==
  (hist.last.ending # "none" /\ activeIds(search_groups) = {}) =>
    /\ hist.last.status = "failed"
    /\ lastRunResult.status = "failed"
    /\ lastRunResult.errorLog # <<>>
    /\ hist.last.processed = {}

\* C8: when the digest send failed after all groups were processed, the
\* failure is in the Run record's error log and the status is not failed.
C8_DigestFailureRecorded ==
  (hist.last.ending = "completed" /\ hist.last.sendFailed) =>
    /\ <<"Email send error">> \in Range(search_runs[hist.last.recId].error_log)
    /\ search_runs[hist.last.recId].status # "failed"

\* C9 (as stated): once a run over the feed has ended with status success, no
\* later run over the same feed adds a row to jobs.
C9_SecondRunAddsNothing ==
  [][hist.someSuccess => Len(jobs') <= Len(jobs)]_vars

\* C9 (amended): once a run has ended with status success without dropping a
\* posting in scoring, a later run over the same feed and the same groups
\* adds no row to jobs, and nothing it fetches gets past the provider-level
\* deduplicator: no posting is new, none is scored.
C9_CleanRunThenNothingNew ==
  /\ [](hist.cleanAt # NullId =>
          /\ loc.newJobs = <<>>
          /\ loc.scoredJobs = <<>>
          /\ pc \notin {"score", "dedup"})
  /\ [][hist.cleanAt # NullId =>
          /\ Len(jobs') = Len(jobs)
          /\ storedIds(jobs') = storedIds(jobs)]_vars

\* C9 witness: the first run was clean and stored rows; the second run over
\* the same feed completed, counted duplicates and scored nothing
C9_Witness ==
  /\ hist.cleanAt = 1
  /\ Len(search_runs) = 2
  /\ search_runs[2].status = "success"
  /\ search_runs[2].jobs_fetched > 0
  /\ search_runs[2].jobs_duplicate > 0
  /\ search_runs[2].jobs_scored = 0
  /\ search_runs[1].jobs_scored > 0
  /\ Len(jobs) > 1

\* C10: no two rows of jobs share linkedin_job_id; rows are never removed; a
\* stored row keeps every field whatever the runner inserts later (only the
\* digest changes a row, and only its seen flag), so inserting a stored
\* identifier changes neither the row nor the row count.
C10_UniqueFirstWriterWins ==
  /\ [](\A i, j \in 1..Len(jobs) :
          jobs[i].linkedin_job_id = jobs[j].linkedin_job_id => i = j)
  /\ [][/\ Len(jobs') >= Len(jobs)
        /\ Len(jobs') - Len(jobs) = Cardinality(storedIds(jobs') \ storedIds(jobs))
        /\ \A i \in 1..Len(jobs) :
             /\ pc # "email" => jobs'[i] = jobs[i]
             /\ [jobs'[i] EXCEPT !.seen = jobs[i].seen] = jobs[i]]_vars

\* C10 witness: a blacklisted posting was inserted under the identifier of a
\* stored scored posting, and the scored row is still there
C10_Witness ==
  /\ hist.ignored
  /\ \E i \in 1..Len(jobs) :
       /\ jobs[i].linkedin_job_id = PostA.jobId
       /\ jobs[i].company = PostA.company
       /\ jobs[i].ai_verdict = "STRONG_MATCH"
  /\ \E k \in 1..Len(run_job_logs) :
       /\ run_job_logs[k].linkedin_job_id = PostD.jobId
       /\ run_job_logs[k].company = PostD.company
       /\ run_job_logs[k].ai_verdict = "BLACKLISTED"


\* ------------------------------------------------------------------ claims on the group's batch
\* the group whose batch the run in flight is working on, and what the
\* provider returned for it
curGroup == loc.groups[loc.gi]
curBatch == feed[curGroup.id]

\* a group's batch is past steps 1 to 3b and not yet logged and stored
InGroup == pc \in {"score", "dedup"}

idsOf(list) == {list[i].jobId : i \in 1..Len(list)}
positions(list, id) == {i \in 1..Len(list) : list[i].jobId = id}
firstOf(list, id) == list[CHOOSE i \in positions(list, id) : \A j \in positions(list, id) : i <= j]

\* the postings of `list` that pass the group's title filter and the blacklist
staticPass(list, group) ==
  LET titled == IF trim(group.title_filter) # <<>>
                THEN SelectSeq2(list, PassesTitle, group.title_filter)
                ELSE list
  IN SelectSeq2(titled, NotBlacklisted, loc.blacklistNames)

\* the rows the run in flight logged for the batch with this identifier and label
batchLogs(id, label) ==
  {n \in (hist.cur.logsBefore + 1)..Len(run_job_logs) :
     /\ run_job_logs[n].run_id = loc.runId
     /\ run_job_logs[n].group_id = curGroup.id
     /\ run_job_logs[n].linkedin_job_id = id
     /\ run_job_logs[n].ai_verdict = label}

\* `list` holds identifier id k times, one copy (the first) went to scoring
\* and k-1 rows were logged DUPLICATE
collapsed(list, id) ==
  /\ Cardinality(positions(loc.newJobs, id)) = 1
  /\ firstOf(loc.newJobs, id) = firstOf(list, id)
  /\ Cardinality(batchLogs(id, "DUPLICATE")) = Cardinality(positions(list, id)) - 1

\* an identifier neither accepted earlier in the run nor stored
notYetSeen(id) == id \notin hist.cur.seenBefore /\ id \notin storedIds(jobs)

\* C11 (as stated): when a group's fetch result holds a not-yet-seen
\* identifier two times or more, exactly one copy, the first, goes to scoring
\* and the others are logged DUPLICATE.
C11_FetchResultCollapsed ==
  InGroup =>
    \A id \in idsOf(curBatch) :
      (notYetSeen(id) /\ Cardinality(positions(curBatch, id)) >= 2)
        => collapsed(curBatch, id)

\* C11 (amended): of the copies of a not-yet-seen identifier that pass the
\* group's title filter and the blacklist, exactly one, the first of them,
\* goes to scoring and the others are logged DUPLICATE.
C11_SurvivorsCollapsed ==
  InGroup =>
    \A id \in idsOf(staticPass(curBatch, curGroup)) :
      notYetSeen(id) => collapsed(staticPass(curBatch, curGroup), id)

\* C11 witness: the batch held one identifier three times, first as PostA;
\* PostA alone is being scored and two rows are logged DUPLICATE
C11_Witness ==
  /\ pc = "score"
  /\ curBatch = <<PostA, PostD, PostA>>
  /\ staticPass(curBatch, curGroup) = curBatch
  /\ notYetSeen(PostA.jobId)
  /\ loc.newJobs = <<PostA>>
  /\ Cardinality(batchLogs(PostA.jobId, "DUPLICATE")) = 2
  /\ \E n \in batchLogs(PostA.jobId, "DUPLICATE") : run_job_logs[n].company = PostD.company

\* the number of postings the provider returned for the groups of `gids`
RECURSIVE rawFetched(_)
rawFetched(gids) ==
  IF gids = {} THEN 0
  ELSE LET g == CHOOSE x \in gids : TRUE
       IN Len(feed[g]) + rawFetched(gids \ {g})

\* every identifier the provider can return
feedIds == UNION {idsOf(feed[g]) : g \in DOMAIN feed}

\* the first attempts of Call 1 in `calls` for this identifier
firstAttempts(calls, id) ==
  {i \in 1..Len(calls) : calls[i].jobId = id /\ calls[i].attempt = 1}

\* the identifier is sent to Call 1 at most once in the run in flight (the call
\* that has not settled yet included) and in the run that returned last
scoredOnce(id) ==
  /\ Cardinality(firstAttempts(hist.cur.call1, id))
       + (IF pc = "score" /\ loc.attempt = 1 /\ loc.newJobs[loc.si].jobId = id
          THEN 1 ELSE 0) <= 1
  /\ Cardinality(firstAttempts(hist.last.call1, id)) <= 1

\* the groups processed in this run before the current one
earlierGroups == hist.cur.processed \ {curGroup.id}

groupOf(gid) == CHOOSE g \in Range(loc.groups) : g.id = gid
groupOfAll(gid) == CHOOSE g \in Range(search_groups) : g.id = gid

\* the raw fetch count covers every posting of every processed group
rawCounted ==
  /\ pc # "idle" => loc.jobsFetched = rawFetched(hist.cur.processed)
  /\ (pc = "idle" /\ hist.last.ending = "completed") =>
       search_runs[hist.last.recId].jobs_fetched = rawFetched(hist.last.processed)

uniqueIds ==
  \A i, j \in 1..Len(jobs) : jobs[i].linkedin_job_id = jobs[j].linkedin_job_id => i = j

\* C12 (as stated): no posting being scored for a group has an identifier
\* that an earlier group of the same run returned; every identifier is scored
\* at most once and stored at most once, and jobsFetched counts every copy.
C12_LaterCopyDropped ==
  /\ InGroup =>
       \A g \in earlierGroups : \A id \in idsOf(feed[g]) : id \notin idsOf(loc.newJobs)
  /\ \A id \in feedIds : scoredOnce(id)
  /\ uniqueIds
  /\ rawCounted

\* C12 (amended): no posting being scored for a group has an identifier that
\* an earlier group of the same run returned on a posting that passed that
\* group's title filter; in every case an identifier is scored at most once
\* and stored at most once, and jobsFetched counts every copy.
C12_AcceptedCopyDropped ==
  /\ InGroup =>
       \A g \in earlierGroups :
         LET group == groupOf(g)
             titled == IF trim(group.title_filter) # <<>>
                       THEN SelectSeq2(feed[g], PassesTitle, group.title_filter)
                       ELSE feed[g]
         IN \A id \in idsOf(titled) : id \notin idsOf(loc.newJobs)
  /\ \A id \in feedIds : scoredOnce(id)
  /\ uniqueIds
  /\ rawCounted

\* C12 witness: both groups returned PostA; it was scored once, in the first
\* group, the second group's copy is logged DUPLICATE without a score, one row
\* is stored and jobs_fetched counts the five postings fetched
C12_Witness ==
  /\ pc = "idle"
  /\ hist.last.ending = "completed"
  /\ hist.last.processed = {1, 2}
  /\ PostA.jobId \in idsOf(feed[1]) \cap idsOf(feed[2])
  /\ Cardinality(firstAttempts(hist.last.call1, PostA.jobId)) = 1
  /\ \E i \in 1..Len(hist.last.call1) :
       hist.last.call1[i].jobId = PostA.jobId /\ hist.last.call1[i].gid = 1
  /\ \E n \in 1..Len(run_job_logs) :
       /\ run_job_logs[n].group_id = 2
       /\ run_job_logs[n].linkedin_job_id = PostA.jobId
       /\ run_job_logs[n].ai_verdict = "DUPLICATE"
       /\ run_job_logs[n].ai_score = NullScore
  /\ Cardinality({i \in 1..Len(jobs) : jobs[i].linkedin_job_id = PostA.jobId}) = 1
  /\ search_runs[hist.last.recId].jobs_fetched = 5

\* ------------------------------------------------------------------ claims on the AI calls
\* two scored postings with different identifiers and the same company and
\* title, compared as runKey compares them
sameKey(a, b) ==
  /\ a.jobId # b.jobId
  /\ toLowerCase(a.company) = toLowerCase(b.company)
  /\ toLowerCase(a.title) = toLowerCase(b.title)

strongPairs(results) ==
  {p \in (1..Len(results)) \X (1..Len(results)) :
     /\ p[1] < p[2]
     /\ results[p[1]].verdict = "STRONG_MATCH"
     /\ results[p[2]].verdict = "STRONG_MATCH"
     /\ sameKey(results[p[1]], results[p[2]])}

\* the second of the pair was marked duplicate and no Call 2 was issued for it
guarded(results, p) == results[p[2]].isDuplicate /\ ~results[p[2]].asked

\* C13 (as stated): of two postings with different identifiers and the same
\* company and title that were both scored STRONG_MATCH in a run, the second
\* is marked duplicate without a Call 2.
C13_SecondIsDuplicate ==
  /\ \A p \in strongPairs(hist.cur.results) : guarded(hist.cur.results, p)
  /\ \A p \in strongPairs(hist.last.results) : guarded(hist.last.results, p)

\* C13 (amended): the same when the first of the two was accepted as
\* non-duplicate (it claimed the key); and no Call 2 is pending for a posting
\* whose key an earlier posting of the run claimed.
C13_SecondAfterAccepted ==
  /\ \A p \in strongPairs(hist.cur.results) :
       ~hist.cur.results[p[1]].isDuplicate => guarded(hist.cur.results, p)
  /\ \A p \in strongPairs(hist.last.results) :
       ~hist.last.results[p[1]].isDuplicate => guarded(hist.last.results, p)
  /\ pc = "dedup" =>
       \A i \in 1..Len(hist.cur.results) :
         LET r == hist.cur.results[i]
         IN (r.verdict = "STRONG_MATCH" /\ ~r.isDuplicate)
              => ~sameKey(r, loc.scoredJobs[loc.ci].job)

\* C13 witness: PostA was accepted in the first group; PostB, in the second
\* group, has its company and title in another case and was marked duplicate
\* with no Call 2 issued in the run
C13_Witness ==
  /\ pc = "idle"
  /\ hist.last.ending = "completed"
  /\ hist.last.call2 = <<>>
  /\ \E p \in strongPairs(hist.last.results) :
       LET a == hist.last.results[p[1]]
           b == hist.last.results[p[2]]
       IN /\ a.jobId = PostA.jobId /\ a.gid = 1 /\ ~a.isDuplicate
          /\ b.jobId = PostB.jobId /\ b.gid = 2 /\ b.isDuplicate /\ ~b.asked
          /\ a.company # b.company
  /\ \E i \in 1..Len(jobs) :
       jobs[i].linkedin_job_id = PostB.jobId /\ jobs[i].is_duplicate

\* the company, trimmed and in lower case, is that of a blacklist entry
onBlacklist(company) ==
  \E b \in blacklisted_companies : trim(toLowerCase(b)) = trim(toLowerCase(company))

\* no Call 1 and no Call 2, settled or pending, is for a blacklisted company
neverJudged ==
  /\ \A c \in Range(hist.cur.call1) \cup Range(hist.last.call1) : ~onBlacklist(c.company)
  /\ \A c \in Range(hist.cur.call2) \cup Range(hist.last.call2) : ~onBlacklist(c.company)
  /\ \A j \in Range(loc.newJobs) : ~onBlacklist(j.company)
  /\ \A s \in Range(loc.scoredJobs) : ~onBlacklist(s.job.company)

\* the rows the latest run logged for this posting of this group
logsOf(g, job) ==
  {n \in 1..Len(run_job_logs) :
     /\ run_job_logs[n].run_id = hist.last.recId
     /\ run_job_logs[n].group_id = g
     /\ run_job_logs[n].linkedin_job_id = job.jobId
     /\ run_job_logs[n].company = job.company
     /\ run_job_logs[n].title = job.title}

\* every row the latest run logged for the posting is BLACKLISTED without a
\* score, and there is one
loggedBlacklisted(g, job) ==
  /\ logsOf(g, job) # {}
  /\ \A n \in logsOf(g, job) :
       /\ run_job_logs[n].ai_verdict = "BLACKLISTED"
       /\ run_job_logs[n].ai_score = NullScore

passesTitleOf(g, job) ==
  trim(groupOfAll(g).title_filter) # <<>> => matchesTitleFilter(job.title, groupOfAll(g).title_filter)

storedFor(g, job) ==
  {i \in 1..Len(jobs) :
     /\ jobs[i].linkedin_job_id = job.jobId
     /\ jobs[i].company = job.company
     /\ jobs[i].title = job.title
     /\ jobs[i].group_id = g}

\* C15: after a run, jobs holds no row for a posting that the run removed
\* from a group's batch with the title filter or with the blacklist filter.
C15_FilteredNeverStored ==
  hist.last.ending # "none" =>
    \A g \in hist.last.processed : \A job \in Range(feed[g]) :
      (~passesTitleOf(g, job) \/ onBlacklist(job.company)) => storedFor(g, job) = {}

\* C16: while a group's new postings are being scored, the run has logged
\* nothing for the postings of the batch that the provider-level deduplicator
\* set aside: the only DUPLICATE rows for such an identifier are those of its
\* repeats within the batch.
C16_ProviderDupesNotLogged ==
  InGroup =>
    \A job \in Range(loc.providerDupes) :
      Cardinality(batchLogs(job.jobId, "DUPLICATE"))
        = Cardinality(positions(staticPass(curBatch, curGroup), job.jobId)) - 1

\* ------------------------------------------------------------------ claims on the run log
\* the rows the latest run logged for group g
runLogs(g) ==
  {n \in 1..Len(run_job_logs) :
     run_job_logs[n].run_id = hist.last.recId /\ run_job_logs[n].group_id = g}

\* the row is the one of this posting
rowOf(n, job) ==
  /\ run_job_logs[n].linkedin_job_id = job.jobId
  /\ run_job_logs[n].company = job.company
  /\ run_job_logs[n].title = job.title

\* the occurrences in group g's batch removed by the title filter, removed
\* by the blacklist, and left to the deduplicators and the scorer
titleRemoved(g) == {i \in 1..Len(feed[g]) : ~passesTitleOf(g, feed[g][i])}
blacklistRemoved(g) ==
  {i \in 1..Len(feed[g]) : passesTitleOf(g, feed[g][i]) /\ onBlacklist(feed[g][i].company)}
survivors(g) == (1..Len(feed[g])) \ (titleRemoved(g) \cup blacklistRemoved(g))

\* one row with this label and no score for each occurrence of `occ`
oneRowEach(g, occ, label) ==
  /\ \A n \in runLogs(g) :
       run_job_logs[n].ai_verdict = label => run_job_logs[n].ai_score = NullScore
  /\ Cardinality({n \in runLogs(g) : run_job_logs[n].ai_verdict = label}) = Cardinality(occ)
  /\ \A i \in occ :
       Cardinality({n \in runLogs(g) : rowOf(n, feed[g][i])
                                        /\ run_job_logs[n].ai_verdict = label})
         = Cardinality({j \in occ : feed[g][j] = feed[g][i]})

\* C17: a run that completed logged, for each group it processed, one row per
\* occurrence the title filter removed (FILTERED), one per occurrence the
\* blacklist removed (BLACKLISTED), and one per occurrence left that scoring
\* did not skip: DUPLICATE without a score for a duplicate by identifier, and
\* for a scored posting its score with its verdict, or DUPLICATE when it was
\* marked duplicate; every row is keyed by the run's identifier.
C17_OneLogPerOccurrence ==
  hist.last.ending = "completed" =>
    /\ \A n \in 1..Len(run_job_logs) : run_job_logs[n].run_id \in 1..Len(search_runs)
    /\ \A g \in hist.last.active \ hist.last.processed : runLogs(g) = {}
    /\ \A g \in hist.last.processed :
         LET results == hist.last.results
             scored == {i \in 1..Len(results) : results[i].gid = g}
             skipped == {d \in hist.last.skipped : d[1] = g}
             withScore == {n \in runLogs(g) : run_job_logs[n].ai_score # NullScore}
         IN /\ oneRowEach(g, titleRemoved(g), "FILTERED")
            /\ oneRowEach(g, blacklistRemoved(g), "BLACKLISTED")
            /\ Cardinality({n \in runLogs(g) :
                 run_job_logs[n].ai_verdict \notin {"FILTERED", "BLACKLISTED"}})
                 = Cardinality(survivors(g)) - Cardinality(skipped)
            /\ \A n \in runLogs(g) \ withScore :
                 run_job_logs[n].ai_verdict \in {"FILTERED", "BLACKLISTED", "DUPLICATE"}
            /\ Cardinality(withScore) = Cardinality(scored)
            /\ \A i \in scored :
                 Cardinality({n \in withScore :
                    /\ rowOf(n, results[i])
                    /\ run_job_logs[n].ai_verdict =
                         (IF results[i].isDuplicate THEN "DUPLICATE" ELSE results[i].verdict)
                    /\ results[i].verdict \in Verdicts}) = 1
            /\ \A n \in withScore : \A k \in storedFor(g, [jobId |-> run_job_logs[n].linkedin_job_id,
                                                            company |-> run_job_logs[n].company,
                                                            title |-> run_job_logs[n].title]) :
                 /\ run_job_logs[n].ai_score = jobs[k].ai_score
                 /\ run_job_logs[n].ai_verdict =
                      (IF jobs[k].is_duplicate THEN "DUPLICATE" ELSE jobs[k].ai_verdict)

\* C17 witness: the first run logged four rows for four postings fetched:
\* FILTERED and STRONG_MATCH in the first group, BLACKLISTED and a scored
\* posting marked DUPLICATE in the second
C17_Witness ==
  /\ pc = "idle"
  /\ hist.last.ending = "completed"
  /\ hist.last.recId = 1
  /\ hist.last.processed = {1, 2}
  /\ Cardinality(runLogs(1)) = 2 /\ Cardinality(runLogs(2)) = 2
  /\ \E n \in runLogs(1) : run_job_logs[n].ai_verdict = "FILTERED"
  /\ \E n \in runLogs(1) : run_job_logs[n].ai_verdict = "STRONG_MATCH"
                            /\ run_job_logs[n].ai_score = 85
  /\ \E n \in runLogs(2) : run_job_logs[n].ai_verdict = "BLACKLISTED"
                            /\ run_job_logs[n].ai_score = NullScore
  /\ \E n \in runLogs(2) : run_job_logs[n].ai_verdict = "DUPLICATE"
                            /\ run_job_logs[n].ai_score = 85

\* ------------------------------------------------------------------ claims on the deduplicator and the judge
\* the calls of the run in flight for the current group
groupCalls(calls) == {c \in Range(calls) : c.gid = curGroup.id}

\* C18: while a group is past the provider-level deduplicator, its input
\* list (allFetched) is split in two: every posting is in exactly one of
\* newJobs and providerDupes, both keep the input's order, a posting is in
\* providerDupes exactly when its identifier is stored, and nothing sent to
\* Call 1 or Call 2 for the group is in providerDupes.
C18_PartitionAgainstStore ==
  InGroup =>
    /\ Len(loc.newJobs) + Len(loc.providerDupes) = Len(loc.allFetched)
    /\ \A job \in Range(loc.allFetched) :
         /\ (job \in Range(loc.newJobs)) # (job \in Range(loc.providerDupes))
         /\ (job \in Range(loc.providerDupes)) <=> (job.jobId \in storedIds(jobs))
    /\ Range(loc.newJobs) \cup Range(loc.providerDupes) = Range(loc.allFetched)
    /\ \A l \in {loc.newJobs, loc.providerDupes} : \A i, j \in 1..Len(l) :
         i < j => \E a, b \in 1..Len(loc.allFetched) :
                    a < b /\ loc.allFetched[a] = l[i] /\ loc.allFetched[b] = l[j]
    /\ \A c \in groupCalls(hist.cur.call1) \cup groupCalls(hist.cur.call2) :
         /\ c.jobId \notin idsOf(loc.providerDupes)
         /\ c.jobId \notin storedIds(jobs)
    /\ \A sc \in Range(loc.scoredJobs) : sc.job \notin Range(loc.providerDupes)
    /\ pc = "score" => loc.newJobs[loc.si] \notin Range(loc.providerDupes)

\* C18 witness: the batch had a new posting and one stored by an earlier run
\* with a verdict that is not a strong match; the new one is in Call 1 for the
\* second time and the stored one is set aside
C18_Witness ==
  /\ pc = "score"
  /\ loc.runId = 2
  /\ loc.attempt = 2
  /\ Len(loc.newJobs) = 1
  /\ Len(loc.providerDupes) = 1
  /\ groupCalls(hist.cur.call1) # {}
  /\ \E i \in 1..Len(jobs) :
       /\ jobs[i].linkedin_job_id = loc.providerDupes[1].jobId
       /\ jobs[i].ai_verdict \in {"WEAK_MATCH", "NO_MATCH"}

\* the Call 1 attempts of `calls` for the posting with this group and identifier
attemptsOf(calls, g, id) == {i \in 1..Len(calls) : calls[i].gid = g /\ calls[i].jobId = id}

\* the calls of a run: a posting gets at most two attempts, the first with the
\* full description cap; a second attempt comes right after a failed first
\* one, for the same posting, with the lower cap; `more` says that the retry
\* of a failed last entry is the call in progress
retriedOnce(calls, more) ==
  /\ \A i \in 1..Len(calls) :
       /\ Cardinality(attemptsOf(calls, calls[i].gid, calls[i].jobId)) <= 2
       /\ calls[i].attempt \in {1, 2}
       /\ calls[i].attempt = 1 => calls[i].cap = FirstCap
       /\ calls[i].attempt = 2 =>
            /\ calls[i].cap = RetryCap /\ calls[i].cap < FirstCap
            /\ i > 1
            /\ calls[i - 1].attempt = 1 /\ ~calls[i - 1].ok
            /\ calls[i - 1].gid = calls[i].gid /\ calls[i - 1].jobId = calls[i].jobId
       /\ (calls[i].attempt = 1 /\ ~calls[i].ok) =>
            IF i < Len(calls) THEN calls[i + 1].attempt = 2 ELSE more
  /\ \A i, j \in 1..Len(calls) :
       (i < j /\ calls[i].gid = calls[j].gid /\ calls[i].jobId = calls[j].jobId)
         => (j = i + 1 /\ calls[j].attempt = 2)

\* C19: Call 1 is attempted at most twice per posting, a failed first attempt
\* is retried once with the lower description cap, and a posting whose retry
\* failed is skipped: it has no result, no scored log row and no stored row,
\* jobs_scored counts only the postings whose call succeeded, and the next
\* posting of the batch is sent to Call 1.
C19_RetryOnceThenDrop ==
  /\ [](retriedOnce(hist.cur.call1,
                    /\ pc = "score" /\ loc.attempt = 2 /\ hist.cur.call1 # <<>>
                    /\ loc.newJobs[loc.si].jobId = hist.cur.call1[Len(hist.cur.call1)].jobId))
  /\ [](retriedOnce(hist.last.call1, FALSE))
  /\ [](\A d \in hist.cur.skipped :
          /\ \A r \in Range(hist.cur.results) : ~(r.gid = d[1] /\ r.jobId = d[2].jobId)
          /\ \A sc \in Range(loc.scoredJobs) : sc.job # d[2]
          /\ storedFor(d[1], d[2]) = {}
          /\ \A i \in attemptsOf(hist.cur.call1, d[1], d[2].jobId) : ~hist.cur.call1[i].ok
          /\ Cardinality(attemptsOf(hist.cur.call1, d[1], d[2].jobId)) = 2)
  /\ [](pc = "idle" =>
          \A d \in hist.last.skipped :
            /\ \A r \in Range(hist.last.results) : ~(r.gid = d[1] /\ r.jobId = d[2].jobId)
            /\ storedFor(d[1], d[2]) = {}
            /\ \A n \in runLogs(d[1]) :
                 rowOf(n, d[2]) => run_job_logs[n].ai_score = NullScore)
  /\ []((pc = "idle" /\ hist.last.ending = "completed") =>
          /\ search_runs[hist.last.recId].jobs_scored
               = Cardinality({i \in 1..Len(hist.last.call1) : hist.last.call1[i].ok})
          /\ search_runs[hist.last.recId].jobs_scored
               = Cardinality({i \in 1..Len(hist.last.call1) : hist.last.call1[i].attempt = 1})
                 - Cardinality(hist.last.skipped))
  /\ [][(pc = "score" /\ hist'.cur.skipped # hist.cur.skipped /\ loc.si < Len(loc.newJobs))
          => /\ pc' = "score"
             /\ loc'.newJobs = loc.newJobs
             /\ loc'.si = loc.si + 1
             /\ loc'.attempt = 1
             /\ loc'.scoredJobs = loc.scoredJobs]_vars

\* C19 witness: in the first group both attempts for PostA failed, the second
\* with the lower cap; PostB, next in the batch, was scored and stored; the
\* run ended success with jobs_scored = 1 and no row stored for PostA
C19_Witness ==
  /\ pc = "idle"
  /\ hist.last.ending = "completed"
  /\ hist.last.status = "success"
  /\ <<1, PostA>> \in hist.last.skipped
  /\ Len(hist.last.call1) = 3
  /\ hist.last.call1[1].jobId = PostA.jobId /\ hist.last.call1[1].cap = FirstCap
  /\ hist.last.call1[2].jobId = PostA.jobId /\ hist.last.call1[2].cap = RetryCap
  /\ hist.last.call1[3].jobId = PostB.jobId /\ hist.last.call1[3].ok
  /\ search_runs[hist.last.recId].jobs_scored = 1
  /\ storedFor(1, PostA) = {}
  /\ storedFor(1, PostB) # {}

\* every Call 2 of `calls` was for a STRONG_MATCH posting whose company and
\* title storage held, and every result of `results` that went through Call 2
\* is such a posting; a WEAK_MATCH or NO_MATCH posting was not asked about
\* and is not a duplicate
call2OnlyWithPrior(calls, results) ==
  /\ \A c \in Range(calls) : c.verdict = "STRONG_MATCH" /\ c.prior
  /\ \A r \in Range(results) :
       /\ r.asked => (r.verdict = "STRONG_MATCH" /\ r.prior)
       /\ r.asked => \E c \in Range(calls) : c.gid = r.gid /\ c.jobId = r.jobId
       /\ r.verdict # "STRONG_MATCH" => (~r.asked /\ ~r.isDuplicate)
  /\ Cardinality({i \in 1..Len(results) : results[i].asked}) <= Len(calls)

\* C20 (as stated): Call 2 is issued only for STRONG_MATCH postings with a
\* stored posting of the same company and title, never for the others, and a
\* STRONG_MATCH posting without such a stored posting is accepted as
\* non-duplicate without a Call 2.
C20_NoPriorAccepted ==
  /\ call2OnlyWithPrior(hist.cur.call2, hist.cur.results)
  /\ call2OnlyWithPrior(hist.last.call2, hist.last.results)
  /\ \A r \in Range(hist.cur.results) \cup Range(hist.last.results) :
       (r.verdict = "STRONG_MATCH" /\ ~r.prior) => (~r.asked /\ ~r.isDuplicate)

\* C20 (amended): the same, where a STRONG_MATCH posting without a stored
\* posting of its company and title is accepted as non-duplicate without a
\* Call 2 when no earlier posting of the run claimed its company+title key,
\* and is marked duplicate without a Call 2 when one did.
C20_Call2OnlyWithPrior ==
  /\ call2OnlyWithPrior(hist.cur.call2, hist.cur.results)
  /\ call2OnlyWithPrior(hist.last.call2, hist.last.results)
  /\ \A r \in Range(hist.cur.results) \cup Range(hist.last.results) :
       (r.verdict = "STRONG_MATCH" /\ ~r.prior) =>
         /\ ~r.asked
         /\ r.isDuplicate <=> r.claimed

\* C20 witness: the first run accepted PostB, a strong match with nothing of
\* its company and title stored, without a Call 2; in the second run PostA, a
\* strong match of the same company and title, is in Call 2
C20_Witness ==
  /\ pc = "dedup"
  /\ loc.runId = 2
  /\ loc.scoredJobs[loc.ci].job = PostA
  /\ loc.scoredJobs[loc.ci].verdict = "STRONG_MATCH"
  /\ loc.existingJobs # {}
  /\ \A i \in loc.existingJobs : jobs[i].linkedin_job_id = PostB.jobId
  /\ Len(hist.cur.call2) = 1
  /\ hist.last.call2 = <<>>
  /\ \E r \in Range(hist.last.results) :
       /\ r.jobId = PostB.jobId /\ r.verdict = "STRONG_MATCH"
       /\ ~r.prior /\ ~r.asked /\ ~r.isDuplicate

\* ------------------------------------------------------------------ claims on Call 2 and the store
\* the results of the latest run that returned whose Call 2 failed
failedCall2(results) == {i \in 1..Len(results) : results[i].failed}

\* the postings of `results` counted as strong matches
countedStrong(results) ==
  {i \in 1..Len(results) :
     results[i].verdict = "STRONG_MATCH" /\ ~results[i].isDuplicate}

\* the posting of a result entry
postOf(r) == [jobId |-> r.jobId, company |-> r.company, title |-> r.title]

\* C21: a posting whose Call 2 failed is a STRONG_MATCH posting taken as
\* non-duplicate; when its run completes it is counted in jobsStrongMatch, and
\* jobs holds it with verdict STRONG_MATCH, is_duplicate 0 and no
\* duplicate_of_job_id.
C21_FailedCall2KeepsPosting ==
  /\ \A r \in Range(hist.cur.results) \cup Range(hist.last.results) :
       r.failed => (r.asked /\ r.verdict = "STRONG_MATCH" /\ ~r.isDuplicate)
  /\ pc # "idle" =>
       loc.jobsStrongMatch >= Cardinality(failedCall2(hist.cur.results))
  /\ (pc = "idle" /\ hist.last.ending = "completed") =>
       /\ lastRunResult.jobsStrongMatch = Cardinality(countedStrong(hist.last.results))
       /\ search_runs[hist.last.recId].jobs_strong_match
            = Cardinality(countedStrong(hist.last.results))
       /\ \A i \in failedCall2(hist.last.results) :
            LET r == hist.last.results[i]
            IN /\ i \in countedStrong(hist.last.results)
               /\ storedFor(r.gid, postOf(r)) # {}
               /\ \A n \in storedFor(r.gid, postOf(r)) :
                    /\ jobs[n].ai_verdict = "STRONG_MATCH"
                    /\ ~jobs[n].is_duplicate
                    /\ jobs[n].duplicate_of_job_id = NullId
                    /\ ~jobs[n].seen

\* C21 witness: a run completed in which Call 2 failed for a posting, and the
\* posting is stored as a non-duplicate strong match next to the stored
\* posting it was to be compared with
C21_Witness ==
  /\ pc = "idle"
  /\ hist.last.ending = "completed"
  /\ \E i \in failedCall2(hist.last.results) :
       LET r == hist.last.results[i]
       IN /\ storedFor(r.gid, postOf(r)) # {}
          /\ \E n \in 1..Len(jobs) :
               /\ jobs[n].linkedin_job_id # r.jobId
               /\ toLowerCase(jobs[n].company) = toLowerCase(r.company)
               /\ toLowerCase(jobs[n].title) = toLowerCase(r.title)
               /\ jobs[n].ai_verdict = "STRONG_MATCH" /\ ~jobs[n].is_duplicate
          /\ lastRunResult.jobsStrongMatch >= 1

\* the rows step 5 wrote to run_job_logs: a blacklisted or a scored posting
step5Logs ==
  {n \in 1..Len(run_job_logs) :
     \/ run_job_logs[n].ai_verdict = "BLACKLISTED"
     \/ run_job_logs[n].ai_score # NullScore}

\* C22: the writes of one group's batch are atomic: whenever step 5 logged a
\* posting of a group its identifier is stored in jobs, and every stored
\* posting has a log entry of step 5 for its group.
C22_BatchAtomic ==
  /\ \A n \in step5Logs : run_job_logs[n].linkedin_job_id \in storedIds(jobs)
  /\ \A i \in 1..Len(jobs) :
       \E n \in step5Logs :
         /\ run_job_logs[n].linkedin_job_id = jobs[i].linkedin_job_id
         /\ run_job_logs[n].group_id = jobs[i].group_id

\* ------------------------------------------------------------------ claims on the title filter
\* nothing but white space
blank(s) == \A k \in 1..Len(s) : IsSpace(s[k])

\* the words of a text in lower case: its longest stretches of word characters
wordsIn(s) ==
  {toLowerCase(SubSeq(s, i, j)) : <<i, j>> \in
     {p \in (1..Len(s)) \X (1..Len(s)) :
        /\ p[1] <= p[2]
        /\ \A k \in p[1]..p[2] : IsWordChar(s[k])
        /\ p[1] = 1 \/ ~IsWordChar(s[p[1] - 1])
        /\ p[2] = Len(s) \/ ~IsWordChar(s[p[2] + 1])}}

\* the lines of a text that are not empty
linesIn(s) ==
  {SubSeq(s, p[1], p[2]) : p \in
     {p \in (1..Len(s)) \X (1..Len(s)) :
        /\ p[1] <= p[2]
        /\ \A k \in p[1]..p[2] : s[k] # "\n"
        /\ p[1] = 1 \/ s[p[1] - 1] = "\n"
        /\ p[2] = Len(s) \/ s[p[2] + 1] = "\n"}}

\* the title has every word of some line of the filter that is not blank; a
\* blank filter lets every title through
filterPasses(title, filter) ==
  IF blank(filter) THEN TRUE
  ELSE \E line \in linesIn(filter) :
         ~blank(line) /\ wordsIn(line) \subseteq wordsIn(title)

\* the rows of run_job_logs that run `run` wrote for the posting in group g
\* with this label
logged(run, g, job, label) ==
  {n \in 1..Len(run_job_logs) :
     /\ run_job_logs[n].run_id = run
     /\ run_job_logs[n].group_id = g
     /\ run_job_logs[n].linkedin_job_id = job.jobId
     /\ run_job_logs[n].title = job.title
     /\ run_job_logs[n].company = job.company
     /\ run_job_logs[n].ai_verdict = label}

\* in the groups `done` of run `run`: a posting of the batch is logged
\* FILTERED exactly when the filter does not let it through, and then no
\* Call 1 of `calls` was made for it
titleFilterHeld(run, done, calls) ==
  \A g \in done : \A job \in Range(feed[g]) :
    LET removed == ~filterPasses(job.title, groupOfAll(g).title_filter)
    IN /\ removed <=> logged(run, g, job, "FILTERED") # {}
       /\ removed =>
            /\ \A c \in Range(calls) :
                 ~(c.gid = g /\ c.jobId = job.jobId /\ c.company = job.company)
            /\ logged(run, g, job, "STRONG_MATCH") = {}
            /\ logged(run, g, job, "WEAK_MATCH") = {}
            /\ logged(run, g, job, "NO_MATCH") = {}

\* C23: a posting gets through the title filter exactly when its title has,
\* as a set of lower-case words, every word of some non-blank line of the
\* group's filter text, or the filter is blank; a posting the filter removes
\* is logged FILTERED and is not scored for the group.
C23_TitleFilter ==
  /\ pc # "idle" =>
       /\ titleFilterHeld(loc.runId, hist.cur.processed, hist.cur.call1)
       /\ (pc = "score" /\ loc.attempt = 1) =>
            filterPasses(loc.newJobs[loc.si].title, curGroup.title_filter)
  /\ titleFilterHeld(hist.last.runId, hist.last.processed, hist.last.call1)

\* C23 witness: the title "B a" is being scored for a group whose filter text
\* is "a b": the words in another order and case
C23_Witness ==
  /\ pc = "score"
  /\ curGroup.title_filter = <<"a", " ", "b">>
  /\ loc.newJobs[loc.si].title = <<"B", " ", "a">>
  /\ logged(loc.runId, curGroup.id, loc.newJobs[loc.si], "FILTERED") = {}

\* ------------------------------------------------------------------ claims on the stored rows
\* the rows of jobs the pipeline stored for scored postings
scoredRows == {i \in 1..Len(jobs) : jobs[i].ai_verdict # "BLACKLISTED"}

\* the Call 1 answers in `calls` for the posting of row i
answersFor(calls, i) ==
  {n \in 1..Len(calls) :
     /\ calls[n].ok
     /\ calls[n].gid = jobs[i].group_id
     /\ calls[n].jobId = jobs[i].linkedin_job_id
     /\ calls[n].company = jobs[i].company}

\* C24: every row stored for a scored posting has a score in 0..100; a
\* rejection category only with the verdict NO_MATCH, and then the category
\* the model gave, which is not NONE; a summary only with the verdict
\* STRONG_MATCH on a posting that is not a duplicate.
C24_StoredRowShape ==
  \A i \in scoredRows :
    /\ jobs[i].ai_score \in 0..100
    /\ jobs[i].ai_verdict \in Verdicts
    /\ jobs[i].rejection_category # NullCat =>
         /\ jobs[i].ai_verdict = "NO_MATCH"
         /\ jobs[i].rejection_category # "NONE"
         /\ \A n \in answersFor(hist.last.call1, i) :
              hist.last.call1[n].category = jobs[i].rejection_category
         /\ \A n \in answersFor(hist.cur.call1, i) :
              hist.cur.call1[n].category = jobs[i].rejection_category
    /\ jobs[i].ai_summary # NullText =>
         /\ jobs[i].ai_verdict = "STRONG_MATCH"
         /\ ~jobs[i].is_duplicate

\* C24 witness: one run stored a posting the model scored above 100, a
\* duplicate strong match whose Call 1 answer had a summary, and a NO_MATCH
\* posting with the model's category
C24_Witness ==
  /\ pc = "idle"
  /\ hist.last.ending = "completed"
  /\ \E i, j, k \in scoredRows :
       /\ jobs[i].linkedin_job_id = PostA.jobId
       /\ jobs[i].ai_score = 100 /\ jobs[i].ai_summary = <<"s">>
       /\ jobs[i].rejection_category = NullCat
       /\ jobs[j].linkedin_job_id = PostB.jobId
       /\ jobs[j].ai_verdict = "STRONG_MATCH" /\ jobs[j].is_duplicate
       /\ jobs[j].ai_summary = NullText
       /\ jobs[k].linkedin_job_id = PostC.jobId
       /\ jobs[k].ai_verdict = "NO_MATCH"
       /\ jobs[k].rejection_category = "PROFILE_MISMATCH"
       /\ answersFor(hist.last.call1, k) # {}

\* ------------------------------------------------------------------ claims on the digest
\* sendDailyReport settles in this step
digestSettles == pc = "email" /\ pc' = "idle"

\* C25: when the digest is sent, the stored postings it included (unseen,
\* not duplicate, STRONG_MATCH when it was put together) become seen and no
\* other row of jobs changes; when the send fails, or the digest query or
\* the UPDATE throws, jobs does not change.
C25_SeenOnlyWhenSent ==
  [][digestSettles =>
       /\ hist'.last.email = "sent" =>
            /\ Len(jobs') = Len(jobs)
            /\ \A i \in 1..Len(jobs) :
                 jobs'[i] = IF i \in digestJobs(jobs)
                            THEN [jobs[i] EXCEPT !.seen = TRUE] ELSE jobs[i]
       /\ hist'.last.email # "sent" => jobs' = jobs]_vars

\* C25 witness: a digest was sent; a strong match it included is seen, and a
\* weak match stored next to it is not
C25_Witness ==
  /\ pc = "idle"
  /\ hist.last.email = "sent"
  /\ \E i, j \in 1..Len(jobs) :
       /\ jobs[i].ai_verdict = "STRONG_MATCH" /\ ~jobs[i].is_duplicate /\ jobs[i].seen
       /\ jobs[j].ai_verdict = "WEAK_MATCH" /\ ~jobs[j].seen

\* ------------------------------------------------------------------ claims on boilerplate trimming
\* the positions of a text at which some boilerplate pattern matches
boilerplateAt(s) == {i \in 1..Len(s) : \E k \in 1..NumPatterns : patternAt(k, s, i)}

\* the text before the earliest of these positions; the text when there is none
beforeBoilerplate(s) ==
  IF boilerplateAt(s) = {} THEN s
  ELSE SubSeq(s, 1, (CHOOSE i \in boilerplateAt(s) : \A j \in boilerplateAt(s) : i <= j) - 1)

groupsOrdered ==
  \A i \in 1..Len(search_groups) :
    /\ 0 <= search_groups[i].score_no_match_max
    /\ search_groups[i].score_no_match_max < search_groups[i].score_weak_match_max
    /\ search_groups[i].score_weak_match_max <= 99
    /\ search_groups[i].score_strong_match_min = search_groups[i].score_weak_match_max + 1

\* the handler answers the request in flight in this step
groupRequestHandled == vin # NoRequest /\ vin' = NoRequest

\* twice the threshold a body gives, the default when the field is absent
givenTwice(raw, dflt) == IF raw.kind = "absent" THEN 2 * dflt ELSE raw.twice

\* the thresholds as the body gives them break the ordering
givenViolates(b) ==
  LET a == givenTwice(b.score_no_match_max, 50)
      w == givenTwice(b.score_weak_match_max, 70)
      c == givenTwice(b.score_strong_match_min, 71)
  IN \/ "text" \in {b.score_no_match_max.kind, b.score_weak_match_max.kind,
                    b.score_strong_match_min.kind}
     \/ ~(0 <= a /\ a < w /\ w <= 198 /\ c = w + 2)

\* the thresholds as parseInt reads them break the ordering
parsedViolates(b) ==
  LET a == parseInt10(b.score_no_match_max, 50)
      w == parseInt10(b.score_weak_match_max, 70)
      c == parseInt10(b.score_strong_match_min, 71)
  IN \/ a.nan \/ w.nan \/ c.nan
     \/ ~(0 <= a.n /\ a.n < w.n /\ w.n <= 99 /\ c.n = w.n + 1)

triggerWhileRunning == isRunning /\ ret' # NoReturn

\* the step leaves the flag, the cached result, the tables and the run in
\* flight as they were
runUntouched ==
  /\ isRunning'
  /\ lastRunResult' = lastRunResult
  /\ UNCHANGED <<search_runs, jobs, run_job_logs, pc, loc, accepted, hist>>

\* C28 (as stated): a trigger handled while a run is in progress gets a result
\* with status failed and errorLog 'Pipeline already running', and the step
\* leaves isRunning true, the cached last-run result and the run in flight
\* as they were.
C28_RejectedWithFailedResult ==
  [][triggerWhileRunning =>
       /\ ret'.status = "failed"
       /\ ret'.errorLog = <<"Pipeline already running">>
       /\ runUntouched]_vars

\* C28 (amended): a trigger handled while a run is in progress leaves
\* isRunning true, the cached last-run result and the run in flight as they
\* were; the scheduled trigger gets from runPipeline a result with status
\* failed and errorLog 'Pipeline already running', the manual trigger gets
\* the answer 409 'Pipeline is already running.' from its route, which does
\* not call runPipeline.
C28_RejectedTriggerChangesNothing ==
  [][triggerWhileRunning =>
       /\ runUntouched
       /\ ret'.trigger = "scheduled" =>
            /\ ret'.outcome = "rejected"
            /\ ret'.status = "failed"
            /\ ret'.errorLog = <<"Pipeline already running">>
       /\ ret'.trigger = "manual" =>
            /\ ret'.outcome = "409"
            /\ ret'.status = "none"
            /\ ret'.errorLog = <<"Pipeline is already running.">>]_vars

\* C28 witness: the second run is in flight, the result of the first is
\* cached, and a scheduled trigger has just been refused
C28_Witness ==
  /\ isRunning
  /\ pc = "fetch"
  /\ loc.runId = 2
  /\ lastRunResult.status = "success"
  /\ ret = AlreadyRunning("scheduled")
  /\ ret.status = "failed"
  /\ hist.inflight = 1

\* ------------------------------------------------------------------ claims on the counters
\* the scored postings of `results` that step 4b marked duplicate
scoredDuplicates(results) == {i \in 1..Len(results) : results[i].isDuplicate}

\* the counters of a result or of a Run record add up
countersAddUp(scored, strong, weak, no, duplicate, fetched, results) ==
  /\ scored = strong + weak + no + Cardinality(scoredDuplicates(results))
  /\ strong + weak + no + duplicate <= fetched

\* C29: when a run has completed, in the result it returned and in its Run
\* record, jobsScored = jobsStrongMatch + jobsWeakMatch + jobsNoMatch + the
\* number of scored postings marked duplicate, and jobsStrongMatch +
\* jobsWeakMatch + jobsNoMatch + jobsDuplicate <= jobsFetched.
C29_CountersAddUp ==
  (pc = "idle" /\ hist.last.ending = "completed") =>
    /\ lastRunResult.status \in {"success", "partial_error"}
    /\ countersAddUp(lastRunResult.jobsScored, lastRunResult.jobsStrongMatch,
                     lastRunResult.jobsWeakMatch, lastRunResult.jobsNoMatch,
                     lastRunResult.jobsDuplicate, lastRunResult.jobsFetched,
                     hist.last.results)
    /\ LET run == search_runs[hist.last.recId]
       IN countersAddUp(run.jobs_scored, run.jobs_strong_match,
                        run.jobs_weak_match, run.jobs_no_match,
                        run.jobs_duplicate, run.jobs_fetched, hist.last.results)

\* C29 witness: a run completed in which two postings were scored, one of
\* them marked duplicate, and a posting was blacklisted, so that the counters
\* stay below the number fetched
C29_Witness ==
  /\ pc = "idle"
  /\ hist.last.ending = "completed"
  /\ scoredDuplicates(hist.last.results) # {}
  /\ blacklisted_companies # {}
  /\ lastRunResult.jobsScored = 2
  /\ lastRunResult.jobsDuplicate > Cardinality(scoredDuplicates(hist.last.results))
  /\ lastRunResult.jobsStrongMatch + lastRunResult.jobsWeakMatch
       + lastRunResult.jobsNoMatch + lastRunResult.jobsDuplicate
       < lastRunResult.jobsFetched

\* ------------------------------------------------------------------ claims on stored blacklisted postings
\* the identifiers of the BLACKLISTED rows among the first n rows of jobs
keptBlacklisted(n) ==
  {jobs[i].linkedin_job_id : i \in {k \in 1..n : jobs[k].ai_verdict = "BLACKLISTED"}}

\* the postings of the batches of the groups `done` whose identifier an
\* earlier run stored with the BLACKLISTED verdict
returning(atStart, done) ==
  {<<g, job>> \in UNION {{g} \X Range(feed[g]) : g \in done} :
     job.jobId \in keptBlacklisted(atStart)}

\* no Call 1 of `calls` was made for an identifier stored BLACKLISTED before
\* the run
notJudged(atStart, calls) ==
  \A c \in Range(calls) : c.jobId \notin keptBlacklisted(atStart)

\* C30 (as stated): once a run has stored a posting with the BLACKLISTED
\* verdict, every later run treats a posting with that identifier as a
\* duplicate (logs it DUPLICATE) and never sends it to the AI judge.
C30_LaterRunsTreatAsDuplicate ==
  /\ pc # "idle" =>
       /\ notJudged(hist.cur.jobsAtStart, hist.cur.call1)
       /\ \A x \in returning(hist.cur.jobsAtStart, hist.cur.processed) :
            logged(loc.runId, x[1], x[2], "DUPLICATE") # {}
  /\ hist.last.ending = "completed" =>
       /\ notJudged(hist.last.jobsAtStart, hist.last.call1)
       /\ \A x \in returning(hist.last.jobsAtStart, hist.last.processed) :
            logged(hist.last.runId, x[1], x[2], "DUPLICATE") # {}

\* C30 (amended): once a run has stored a posting with the BLACKLISTED
\* verdict, no later run sends a posting with that identifier to the AI
\* judge: the title filter removes it (FILTERED), or its company is still on
\* the blacklist and the blacklist filter removes it again (BLACKLISTED), or
\* the deduplication removes it (DUPLICATE), which is what happens once the
\* company is off the blacklist and the title filter lets the posting through.
C30_StoredBlacklistedNeverJudged ==
  /\ pc # "idle" =>
       /\ notJudged(hist.cur.jobsAtStart, hist.cur.call1)
       /\ \A j \in Range(loc.newJobs) : j.jobId \notin keptBlacklisted(hist.cur.jobsAtStart)
       /\ \A x \in returning(hist.cur.jobsAtStart, hist.cur.processed) :
            LET listed == trim(toLowerCase(x[2].company)) \in loc.blacklistNames
                passes == passesTitleOf(x[1], x[2])
            IN /\ ~passes <=> logged(loc.runId, x[1], x[2], "FILTERED") # {}
               /\ (passes /\ ~listed) <=> logged(loc.runId, x[1], x[2], "DUPLICATE") # {}
  /\ hist.last.ending = "completed" =>
       /\ notJudged(hist.last.jobsAtStart, hist.last.call1)
       /\ \A x \in returning(hist.last.jobsAtStart, hist.last.processed) :
            /\ Cardinality({v \in {"FILTERED", "BLACKLISTED", "DUPLICATE"} :
                              logged(hist.last.runId, x[1], x[2], v) # {}}) = 1
            /\ \A v \in {"STRONG_MATCH", "WEAK_MATCH", "NO_MATCH"} :
                 logged(hist.last.runId, x[1], x[2], v) = {}

\* C30 witness: the first run stored PostC as BLACKLISTED, its company was
\* then deleted from the blacklist, and the second run completed with PostC
\* logged DUPLICATE and not judged, while it judged a posting the first run
\* had skipped
C30_Witness ==
  /\ pc = "idle"
  /\ hist.last.ending = "completed"
  /\ hist.last.runId = 2
  /\ PostC.jobId \in keptBlacklisted(hist.last.jobsAtStart)
  /\ blacklisted_companies = {}
  /\ logged(2, 1, PostC, "DUPLICATE") # {}
  /\ logged(2, 1, PostC, "BLACKLISTED") = {}
  /\ logged(1, 1, PostC, "BLACKLISTED") # {}
  /\ notJudged(hist.last.jobsAtStart, hist.last.call1)
  /\ hist.last.call1 # <<>>
====
